---- MODULE Spec2Model ----
(***************************************************************************)
(* Veya API: the personalization catalog (personalization_templates       *)
(* table), the catalog validator, the onboarding screen assembler and the *)
(* profile save handlers, modelled from veya-api/app.                      *)
(*                                                                         *)
(* A JSON object is a TLA+ record holding the keys the code reads;         *)
(* display-only strings (label text, emoji, description, titles) are       *)
(* passed through by the code and are left out.  SQL NULL / Python None    *)
(* is the string Null for text columns and NoTime for timestamps.          *)
(***************************************************************************)
EXTENDS Integers, Sequences, FiniteSets, TLC

VARIABLES
    table,      \* personalization_templates rows, in insertion order
    profiles,   \* user_profiles rows, keyed by user id
    now,        \* the wall clock read by datetime.utcnow()
    result,     \* the response of the last request
    pending,    \* the requests in flight: what each one selected, not yet committed
    cache       \* the Redis keys user:info:<user id>

vars == <<table, profiles, now, result, pending, cache>>

----------------------------------------------------------------------------
(* Bounds *)

MaxClock == 2
MaxWrites == 1
MaxTemplates == 2
MaxOrder == 2
MaxCodes == 2
MaxDefaults == 1
MaxFields == 2
MaxKeys == 2
MaxRequests == 2

----------------------------------------------------------------------------
(* Values *)

Null == "NULL"
NoTime == 0

\* Cache.get of a key that is not set
NoEntry == [cached |-> FALSE]

\* A worker that handles no request.
Idle == [op |-> "idle"]

Min(a, b) == IF a < b THEN a ELSE b

MinOf(S) == CHOOSE x \in S : \A y \in S : x <= y

Prefix(s, n) == SubSeq(s, 1, Min(Len(s), n))

RECURSIVE SeqsUpTo(_, _)
SeqsUpTo(S, n) ==
    IF n = 0 THEN {<<>>}
    ELSE LET shorter == SeqsUpTo(S, n - 1)
         IN  shorter \cup {Append(s, x) : s \in {t \in shorter : Len(t) = n - 1}, x \in S}

Range(s) == {s[i] : i \in 1..Len(s)}

----------------------------------------------------------------------------
(* personalization_defaults.py *)

Item(code, order, active) ==
    [code |-> code, display_order |-> order, is_active |-> active]

SCREEN_METADATA ==
    [basic             |-> [view_order |-> 1,  screen_key |-> "basic",      screen_type |-> "form"],
     lifestyle         |-> [view_order |-> 2,  screen_key |-> "lifestyle",  screen_type |-> "form"],
     goals             |-> [view_order |-> 3,  screen_key |-> "goals",      screen_type |-> "multi"],
     challenges        |-> [view_order |-> 4,  screen_key |-> "challenges", screen_type |-> "multi"],
     practices         |-> [view_order |-> 5,  screen_key |-> "practice",   screen_type |-> "multi"],
     experience_levels |-> [view_order |-> 6,  screen_key |-> "experience", screen_type |-> "single"],
     mood_tendencies   |-> [view_order |-> 7,  screen_key |-> "mood",       screen_type |-> "single"],
     practice_times    |-> [view_order |-> 8,  screen_key |-> "time",       screen_type |-> "single"],
     reminders         |-> [view_order |-> 9,  screen_key |-> "reminders",  screen_type |-> "multi"],
     interests         |-> [view_order |-> 10, screen_key |-> "interests",  screen_type |-> "multi"],
     consent           |-> [view_order |-> 11, screen_key |-> "consent",    screen_type |-> "consent"]]

\* The keys of get_default_templates(), in the order the dict literal lists them.
DefaultCategoryOrder ==
    <<"basic", "lifestyle", "goals", "challenges", "practices", "practice_times",
      "mood_tendencies", "experience_levels", "interests", "reminders", "consent">>

AllDefaultCodes ==
    [basic             |-> <<>>,
     lifestyle         |-> <<>>,
     goals             |-> <<"reduce_stress", "sleep_better", "improve_focus", "manage_emotions">>,
     challenges        |-> <<"overthinking", "burnout", "fatigue", "insomnia", "low_motivation",
                             "loneliness", "relationship_stress", "anxiety">>,
     practices         |-> <<"breathing", "guided_meditation", "soundscape", "short_reflections",
                             "mindful_journaling">>,
     practice_times    |-> <<"morning", "afternoon", "night">>,
     mood_tendencies   |-> <<"calm", "stressed", "sad", "happy">>,
     experience_levels |-> <<"beginner", "intermediate", "advanced">>,
     interests         |-> <<"mindfulness", "sleep_science", "productivity", "relationships",
                             "self_compassion">>,
     reminders         |-> <<"morning", "midday", "evening">>,
     consent           |-> <<>>]

\* Every default item is active and numbered 1.. in list order; the model keeps
\* the first MaxDefaults items of each list.
get_default_templates ==
    [c \in DOMAIN AllDefaultCodes |->
        LET codes == Prefix(AllDefaultCodes[c], MaxDefaults)
        IN  [i \in 1..Len(codes) |-> Item(codes[i], i, TRUE)]]

\* A stored JSON value of the fields column.  An object keeps its string
\* attributes in attrs (a function from the keys present) and its inline
\* options list in options; any other JSON value (a string, a number) is
\* tagged by json and carries nothing.
JsonObject(attrs, options) == [json |-> "object", attrs |-> attrs, options |-> options]
JsonString == [json |-> "string", attrs |-> <<>>, options |-> <<>>]

Option(code) == ("code" :> code @@ "id" :> code)

FieldDict(key, ftype, dtype) ==
    JsonObject(("field_key" :> key @@ "field_type" :> ftype @@ "label" :> key
                @@ "data_type" :> dtype), <<>>)

TypedFieldDict(key, ftype, type, dtype, options) ==
    JsonObject(("field_key" :> key @@ "field_type" :> ftype @@ "type" :> type
                @@ "label" :> key @@ "data_type" :> dtype), options)

\* The attributes the assembler reads of every default field; of each static
\* options list, the first two entries (each has code and id).
AllDefaultFields ==
    [basic      |-> <<TypedFieldDict("name", "text", "text", "string", <<>>),
                      TypedFieldDict("age_range", "dropdown", "dropdown", "string",
                                     <<Option("13-17"), Option("18-24")>>),
                      TypedFieldDict("gender", "dropdown", "dropdown", "string",
                                     <<Option("male"), Option("female")>>),
                      TypedFieldDict("occupation", "text", "text", "string", <<>>)>>,
     lifestyle  |-> <<TypedFieldDict("wake_time", "time", "time", "string", <<>>),
                      TypedFieldDict("sleep_time", "time_range", "time", "string", <<>>),
                      TypedFieldDict("work_hours", "dropdown", "dropdown", "string",
                                     <<Option("under_4"), Option("4_6")>>),
                      TypedFieldDict("screen_time", "dropdown", "dropdown", "string",
                                     <<Option("under_2"), Option("2_4")>>)>>,
     consent    |-> <<TypedFieldDict("data_consent", "switch", "switch", "boolean", <<>>)>>,
     goals      |-> <<FieldDict("goals", "multi_select", "array")>>,
     challenges |-> <<FieldDict("challenges", "multi_select", "array")>>,
     practice   |-> <<FieldDict("practice_preferences", "multi_select", "array")>>,
     experience |-> <<FieldDict("experience_level", "single_select", "string")>>,
     mood       |-> <<FieldDict("mood_tendency", "single_select", "string")>>,
     time       |-> <<FieldDict("preferred_practice_time", "single_select", "string")>>,
     reminders  |-> <<FieldDict("reminders", "multi_select", "array")>>,
     interests  |-> <<FieldDict("interests", "multi_select", "array")>>]

\* The model keeps the first MaxDefaults field definitions of each screen.
get_default_fields ==
    [k \in DOMAIN AllDefaultFields |-> Prefix(AllDefaultFields[k], MaxDefaults)]

\* dict.get(key, default) on a function with a string domain
DictGet(d, key, default) == IF key \in DOMAIN d THEN d[key] ELSE default

----------------------------------------------------------------------------
(* models/personalization_templates.py *)

\* A PersonalizationTemplate row.  The column defaults: view_order 0, the
\* screen columns NULL, templates and fields [], version 1, updated_at NULL.
PersonalizationTemplate(category, view_order, screen_key, screen_type, templates, fields, version) ==
    [category |-> category, view_order |-> view_order, screen_key |-> screen_key,
     screen_type |-> screen_type, templates |-> templates, fields |-> fields,
     version |-> version, updated_at |-> NoTime]

\* select(PersonalizationTemplate).where(category == c) ... .first():
\* the position of the first matching row, 0 for None
FirstRow(rows, category) ==
    IF \E i \in 1..Len(rows) : rows[i].category = category
    THEN CHOOSE i \in 1..Len(rows) :
            /\ rows[i].category = category
            /\ \A j \in 1..(i - 1) : rows[j].category # category
    ELSE 0

\* What session.commit() writes for a JSON column that the handler assigned:
\* the unit of work compares the assigned value with the value it holds as
\* loaded (the very list object that was read, whose item dicts the handler
\* may have changed in place) and leaves the column out of the UPDATE when
\* the two are equal.
FlushJson(stored, loaded, assigned) ==
    IF assigned = loaded THEN stored ELSE assigned

----------------------------------------------------------------------------
(* utils/template_seeder.py: seed_templates *)

\* One pass of the loop body for the k-th default category, then the rest.
\* t is the value of datetime.utcnow() during the call.
RECURSIVE SeedFrom(_, _, _, _)
SeedFrom(rows, k, overwrite, t) ==
    IF k > Len(DefaultCategoryOrder) THEN rows
    ELSE
      LET category == DefaultCategoryOrder[k]
          templates == get_default_templates[category]
          metadata == SCREEN_METADATA[category]
          screen_key == metadata.screen_key
          byCategory == DictGet(get_default_fields, category, <<>>)
          fields == IF byCategory # <<>> THEN byCategory
                    ELSE DictGet(get_default_fields, screen_key, <<>>)
          existing == FirstRow(rows, category)
          seeded ==
            IF existing # 0
            THEN IF overwrite
                 THEN [rows EXCEPT ![existing] =
                        [@ EXCEPT !.templates = templates,
                                  !.fields = fields,
                                  !.view_order = metadata.view_order,
                                  !.screen_key = metadata.screen_key,
                                  !.screen_type = metadata.screen_type,
                                  !.updated_at = t,
                                  !.version = @ + 1]]
                 ELSE rows
            ELSE Append(rows, PersonalizationTemplate(category, metadata.view_order,
                                metadata.screen_key, metadata.screen_type,
                                templates, fields, 1))
      IN  SeedFrom(seeded, k + 1, overwrite, t)

seed_templates_AlwaysOverwrite(rows, overwrite, t) == SeedFrom(rows, 1, TRUE, t)

seed_templates(rows, overwrite, t) == SeedFrom(rows, 1, overwrite, t)

----------------------------------------------------------------------------
(* api/routes/admin_templates.py *)

valid_categories == {"goals", "challenges", "practices", "interests", "reminders"}

\* template_record.updated_at = datetime.utcnow(); template_record.version += 1
BumpVersion_NoIncrement(record, t) == [record EXCEPT !.updated_at = t]

BumpVersion(record, t) == [record EXCEPT !.updated_at = t, !.version = @ + 1]

\* existing_codes = {t["code"] for t in template_record.templates}
existing_codes_Unchecked(templates) == {}

existing_codes(templates) == {templates[k].code : k \in 1..Len(templates)}

\* get_session: "with Session(engine) as session: yield session".  The
\* session of a request is closed when the handler returns; nothing commits
\* on the way out, so the table keeps what was stored and whatever the
\* handler wrote into the loaded rows without a commit of its own is dropped.
get_session_CommitOnClose(stored, loaded) == loaded

get_session(stored, loaded) == stored

\* A response: the handler, the request it answered and the status code;
\* a 200 response of a handler that returns data carries more.
Response(op, category, status) == [op |-> op, category |-> category, status |-> status]

\* GET /admin/templates/{category}
get_category_templates(category) ==
    /\ result' =
         IF category \notin valid_categories
         THEN Response("get_category_templates", category, 400)
         ELSE LET i == FirstRow(table, category)
              IN  [op |-> "get_category_templates", status |-> 200, category |-> category,
                   templates |-> IF i = 0 THEN <<>> ELSE table[i].templates,
                   version |-> IF i = 0 THEN 0 ELSE table[i].version]
    /\ table' = get_session(table, table)
    /\ UNCHANGED <<profiles, now, pending, cache>>

\* PUT /admin/templates/{category}
update_category_templates(category, templates_list) ==
    IF category \notin valid_categories
    THEN /\ result' = Response("update_category_templates", category, 400)
         /\ UNCHANGED <<table, profiles, now, pending, cache>>
    ELSE
      LET i == FirstRow(table, category)
          t == now + 1
          committed ==
            IF i # 0
            THEN [table EXCEPT ![i] =
                    BumpVersion([@ EXCEPT !.templates = FlushJson(@, @, templates_list)], t)]
            ELSE Append(table, PersonalizationTemplate(category, 0, Null, Null,
                                                       templates_list, <<>>, 1))
          j == FirstRow(committed, category)
      IN  /\ table' = committed
          /\ now' = t
          /\ result' = [op |-> "update_category_templates", status |-> 200,
                        category |-> category,
                        templates |-> committed[j].templates,
                        version |-> committed[j].version]
          /\ UNCHANGED <<profiles, pending, cache>>

\* POST /admin/templates/{category}/add
add_template_to_category(category, template_item) ==
    LET i == FirstRow(table, category)
        t == now + 1
    IN
    IF category \notin valid_categories
    THEN /\ result' = [op |-> "add_template_to_category", category |-> category,
                       status |-> 400, template |-> template_item]
         /\ UNCHANGED <<table, profiles, now, pending, cache>>
    ELSE IF i = 0
    THEN /\ table' = Append(table, PersonalizationTemplate(category, 0, Null, Null,
                                                           <<template_item>>, <<>>, 1))
         /\ now' = t
         /\ result' = [op |-> "add_template_to_category", category |-> category,
                       status |-> 200, template |-> template_item]
         /\ UNCHANGED <<profiles, pending, cache>>
    ELSE IF template_item.code \in existing_codes(table[i].templates)
    THEN /\ result' = [op |-> "add_template_to_category", category |-> category,
                       status |-> 400, template |-> template_item]
         /\ UNCHANGED <<table, profiles, now, pending, cache>>
    ELSE
      LET templates_list == Append(table[i].templates, template_item)
      IN  /\ table' = [table EXCEPT ![i] =
                         BumpVersion([@ EXCEPT !.templates = FlushJson(@, @, templates_list)], t)]
          /\ now' = t
          /\ result' = [op |-> "add_template_to_category", category |-> category,
                        status |-> 200, template |-> template_item]
          /\ UNCHANGED <<profiles, pending, cache>>

\* The loop of delete_template_from_category: the first item whose code
\* matches gets is_active = False, written into the item dict itself.
DeactivateFirst(templates, template_code) ==
    IF \E k \in 1..Len(templates) : templates[k].code = template_code
    THEN LET k == CHOOSE k \in 1..Len(templates) :
                    /\ templates[k].code = template_code
                    /\ \A m \in 1..(k - 1) : templates[m].code # template_code
         IN  [templates EXCEPT ![k].is_active = FALSE]
    ELSE templates

\* DELETE /admin/templates/{category}/{template_code}
\* templates_list is template_record.templates.copy(), a new list of the same
\* item dicts: the write to template["is_active"] is a write to the loaded
\* list's item too, so at commit the loaded value and the assigned value are
\* the same list of the same dicts.
delete_template_from_category(category, template_code) ==
    LET i == FirstRow(table, category)
        t == now + 1
    IN
    IF category \notin valid_categories
    THEN /\ result' = [op |-> "delete_template_from_category", category |-> category,
                       status |-> 400, template_code |-> template_code]
         /\ UNCHANGED <<table, profiles, now, pending, cache>>
    ELSE IF i = 0
    THEN /\ result' = [op |-> "delete_template_from_category", category |-> category,
                       status |-> 404, template_code |-> template_code]
         /\ UNCHANGED <<table, profiles, now, pending, cache>>
    ELSE IF \A k \in 1..Len(table[i].templates) : table[i].templates[k].code # template_code
    THEN /\ result' = [op |-> "delete_template_from_category", category |-> category,
                       status |-> 404, template_code |-> template_code]
         /\ UNCHANGED <<table, profiles, now, pending, cache>>
    ELSE
      LET templates_list == DeactivateFirst(table[i].templates, template_code)
          loaded == DeactivateFirst(table[i].templates, template_code)
      IN  /\ table' = [table EXCEPT ![i] =
                         BumpVersion([@ EXCEPT !.templates = FlushJson(@, loaded, templates_list)], t)]
          /\ now' = t
          /\ result' = [op |-> "delete_template_from_category", category |-> category,
                        status |-> 200, template_code |-> template_code]
          /\ UNCHANGED <<profiles, pending, cache>>

\* POST /admin/templates/seed-defaults?overwrite=...
seed_default_templates(overwrite) ==
    /\ table' = seed_templates(table, overwrite, now + 1)
    /\ now' = now + 1
    /\ result' = [op |-> "seed_default_templates", overwrite |-> overwrite, status |-> 200]
    /\ UNCHANGED <<profiles, pending, cache>>

\* POST /admin/templates/reset-defaults: reset_templates_to_defaults
reset_to_default_templates ==
    /\ table' = seed_templates(table, TRUE, now + 1)
    /\ now' = now + 1
    /\ result' = [op |-> "reset_to_default_templates", overwrite |-> TRUE, status |-> 200]
    /\ UNCHANGED <<profiles, pending, cache>>

\* db/database.py: init_db at application start-up
init_db ==
    /\ table' = seed_templates(table, FALSE, now + 1)
    /\ now' = now + 1
    /\ result' = [op |-> "init_db", overwrite |-> FALSE, status |-> 200]
    /\ UNCHANGED <<profiles, pending, cache>>

----------------------------------------------------------------------------
(* utils/profile_validator.py *)

ActiveCodesOf(templates) ==
    {templates[k].code : k \in {m \in 1..Len(templates) : templates[m].is_active}}

get_template_codes_for_category(rows, category) ==
    LET i == FirstRow(rows, category)
    IN  IF i # 0
        THEN ActiveCodesOf(rows[i].templates)
        ELSE ActiveCodesOf(DictGet(get_default_templates, category, <<>>))

\* Returns <<valid_codes, invalid_codes>>
validate_template_codes(rows, category, codes) ==
    IF codes = <<>> THEN <<(<<>>), (<<>>)>>
    ELSE LET valid_codes_set == get_template_codes_for_category(rows, category)
             IsValid(code) == code \in valid_codes_set
             IsInvalid(code) == code \notin valid_codes_set
         IN  <<SelectSeq(codes, IsValid), SelectSeq(codes, IsInvalid)>>

validate_goal_codes(rows, codes) == validate_template_codes(rows, "goals", codes)
validate_challenge_codes(rows, codes) == validate_template_codes(rows, "challenges", codes)
validate_practice_codes(rows, codes) == validate_template_codes(rows, "practices", codes)
validate_interest_codes(rows, codes) == validate_template_codes(rows, "interests", codes)
validate_reminder_codes(rows, codes) == validate_template_codes(rows, "reminders", codes)

\* A call of the validator on the current store (the save handlers call it
\* this way; the action records what it returned).
ValidateCodes(category, codes) ==
    /\ result' = [op |-> "validate_template_codes", status |-> 200,
                  category |-> category, codes |-> codes,
                  valid_codes |-> validate_template_codes(table, category, codes)[1],
                  invalid_codes |-> validate_template_codes(table, category, codes)[2]]
    /\ table' = get_session(table, table)
    /\ UNCHANGED <<profiles, now, pending, cache>>

----------------------------------------------------------------------------
(* utils/template_seeder.py: get_active_templates_for_category *)

\* list.sort(key=display_order) is stable: an item goes after every item
\* already placed whose key is not greater.
InsertByDisplayOrder_Unstable(sorted, x) ==
    LET p == Cardinality({k \in 1..Len(sorted) : sorted[k].display_order < x.display_order})
    IN  SubSeq(sorted, 1, p) \o <<x>> \o SubSeq(sorted, p + 1, Len(sorted))

InsertByDisplayOrder(sorted, x) ==
    LET p == Cardinality({k \in 1..Len(sorted) : sorted[k].display_order <= x.display_order})
    IN  SubSeq(sorted, 1, p) \o <<x>> \o SubSeq(sorted, p + 1, Len(sorted))

RECURSIVE SortByDisplayOrder(_)
SortByDisplayOrder(items) ==
    IF items = <<>> THEN <<>>
    ELSE InsertByDisplayOrder(SortByDisplayOrder(SubSeq(items, 1, Len(items) - 1)),
                              items[Len(items)])

IsActive(t) == t.is_active

get_active_templates_for_category(rows, category) ==
    LET i == FirstRow(rows, category)
    IN  IF i = 0 THEN <<>>
        ELSE SortByDisplayOrder(SelectSeq(rows[i].templates, IsActive))

\* A call of get_active_templates_for_category on the current store, as made
\* by GET /templates/goals, /challenges, /practices, /interests, /reminders
\* (each route then copies code, label, emoji, description of every item, in
\* the order returned).  The filter builds a new list and the sort orders
\* that list: the loaded row keeps its templates as stored.
GetActiveTemplates(category) ==
    /\ result' = [op |-> "get_active_templates", status |-> 200, category |-> category,
                  templates |-> get_active_templates_for_category(table, category)]
    /\ table' = get_session(table, table)
    /\ UNCHANGED <<profiles, now, pending, cache>>

----------------------------------------------------------------------------
(* api/routes/templates.py: get_onboarding_templates_view *)

\* select(...).where(view_order > 0).order_by(view_order): positions of the
\* selected rows of the table, ascending by view_order (rows of equal
\* view_order in table order).
InsertByViewOrder_TableOrder(rows, sorted, i) == Append(sorted, i)

InsertByViewOrder(rows, sorted, i) ==
    LET p == Cardinality({k \in 1..Len(sorted) : rows[sorted[k]].view_order <= rows[i].view_order})
    IN  SubSeq(sorted, 1, p) \o <<i>> \o SubSeq(sorted, p + 1, Len(sorted))

RECURSIVE OrderByViewOrder(_, _)
OrderByViewOrder(rows, n) ==
    IF n = 0 THEN <<>>
    ELSE IF rows[n].view_order > 0
         THEN InsertByViewOrder(rows, OrderByViewOrder(rows, n - 1), n)
         ELSE OrderByViewOrder(rows, n - 1)

\* The body of the try block for one stored field.  outcome is "ok" with the
\* FieldDefinitionResponse built, "skip" when the except clause logs and
\* continues, "raise" when the except clause itself raises: its log line
\* calls field.get, which only a dict has.
FieldDefinitionRequired == {"field_key", "field_type", "label", "data_type"}

ParseField(field) ==
    IF field.json # "object" THEN [outcome |-> "raise"]
    ELSE
      LET none == [k \in DOMAIN field.attrs |->
                      IF field.attrs[k] \in {"None", "null"} THEN Null ELSE field.attrs[k]]
          mirrored == IF "field_type" \in DOMAIN none /\ "type" \notin DOMAIN none
                      THEN none @@ ("type" :> none["field_type"])
                      ELSE none
          field_dict == IF DictGet(mirrored, "type", Null) = "time_range"
                        THEN [mirrored EXCEPT !["type"] = "time"]
                        ELSE mirrored
          options == [k \in 1..Len(field.options) |->
                        LET opt == field.options[k]
                        IN  IF "code" \in DOMAIN opt /\ "id" \notin DOMAIN opt
                            THEN opt @@ ("id" :> opt["code"])
                            ELSE opt]
      IN  IF \A k \in FieldDefinitionRequired : k \in DOMAIN field_dict /\ field_dict[k] # Null
          THEN [outcome |-> "ok",
                field_key |-> field_dict["field_key"],
                field_type |-> field_dict["field_type"],
                type |-> DictGet(field_dict, "type", Null),
                label |-> field_dict["label"],
                data_type |-> field_dict["data_type"],
                options |-> options]
          ELSE [outcome |-> "skip"]

IsParsed(parsed) == parsed.outcome = "ok"

\* One PersonalizationTemplateViewResponse
ScreenView(record) ==
    LET parsed == [k \in 1..Len(record.fields) |-> ParseField(record.fields[k])]
    IN  [category |-> record.category,
         view_order |-> record.view_order,
         screen_key |-> record.screen_key,
         screen_type |-> record.screen_type,
         templates |-> SortByDisplayOrder(SelectSeq(record.templates, IsActive)),
         fields |-> SelectSeq(parsed, IsParsed),
         version |-> record.version,
         updated_at |-> record.updated_at]

FieldsRaise(record) ==
    \E k \in 1..Len(record.fields) : ParseField(record.fields[k]).outcome = "raise"

\* dict(field) copies the field dict but shares its options list: the id the
\* handler gives an option is written into the option dict of the loaded row.
LoadedOption(opt) ==
    IF "code" \in DOMAIN opt /\ "id" \notin DOMAIN opt THEN opt @@ ("id" :> opt["code"]) ELSE opt

LoadedField(field) ==
    IF field.json # "object" THEN field
    ELSE [field EXCEPT !.options = [k \in 1..Len(field.options) |-> LoadedOption(field.options[k])]]

\* The first field of the record whose handling raises, or one past the last.
FirstRaise(record) ==
    MinOf({k \in 1..Len(record.fields) : ParseField(record.fields[k]).outcome = "raise"}
          \cup {Len(record.fields) + 1})

\* The loaded record after the loop over its first upto - 1 fields.
LoadedRecord(record, upto) ==
    [record EXCEPT !.fields = [k \in 1..Len(record.fields) |->
                                 IF k < upto THEN LoadedField(record.fields[k])
                                 ELSE record.fields[k]]]

\* The rows as the session holds them when the handler returns or raises:
\* the records are handled in view order, up to the first field that raises.
LoadedAfterView(rows) ==
    LET order == OrderByViewOrder(rows, Len(rows))
        bad == MinOf({p \in 1..Len(order) : FieldsRaise(rows[order[p]])} \cup {Len(order) + 1})
    IN  [i \in 1..Len(rows) |->
           IF \E p \in 1..Len(order) : order[p] = i /\ p < bad
           THEN LoadedRecord(rows[i], Len(rows[i].fields) + 1)
           ELSE IF bad <= Len(order) /\ order[bad] = i
                THEN LoadedRecord(rows[i], FirstRaise(rows[i]))
                ELSE rows[i]]

\* GET /templates/onboarding.  The handler never commits: what it writes into
\* the loaded field dicts (the synthesized option ids) is dropped with the
\* session.
get_onboarding_templates_view ==
    LET order == OrderByViewOrder(table, Len(table))
    IN  /\ result' =
             IF \E k \in 1..Len(order) : FieldsRaise(table[order[k]])
             THEN [op |-> "get_onboarding_templates_view", status |-> 500]
             ELSE [op |-> "get_onboarding_templates_view", status |-> 200,
                   screens |-> [k \in 1..Len(order) |-> ScreenView(table[order[k]])]]
        /\ table' = get_session(table, LoadedAfterView(table))
        /\ UNCHANGED <<profiles, now, pending, cache>>

----------------------------------------------------------------------------
(* models/user.py: UserProfile *)

\* A value of the personalization_data document, or of a request payload:
\* kind is its Python type, val its content as a sequence of strings.
VNone == [kind |-> "none", val |-> <<>>]
VList(codes) == [kind |-> "list", val |-> codes]
VStr(str) == [kind |-> "str", val |-> <<str>>]
VBool(b) == [kind |-> "bool", val |-> <<IF b THEN "true" ELSE "false">>]

_LIST_FIELDS == {"goals", "challenges", "practice_preferences", "interests", "reminder_times"}
_BOOL_FIELDS == {"data_consent", "marketing_consent"}

\* bool(value)
Truthy(value) ==
    CASE value.kind = "none" -> FALSE
      [] value.kind = "bool" -> value.val = <<"true">>
      [] value.kind = "str"  -> value.val # <<"">>
      [] OTHER               -> value.val # <<>>

\* [value] for a scalar
Singleton(value) == VList(value.val)

\* The value update_personalization stores under key for a value that is
\* not None.
NormalizedValue_Unwrapped(key, value) ==
    IF key \in _BOOL_FIELDS THEN VBool(Truthy(value))
    ELSE IF Len(value.val) = 1 THEN VStr(value.val[1]) ELSE value

NormalizedValue(key, value) ==
    IF key \in _LIST_FIELDS
    THEN IF value.kind = "list" THEN value ELSE Singleton(value)
    ELSE IF key \in _BOOL_FIELDS
    THEN VBool(Truthy(value))
    ELSE value

update_personalization_Replace(data, updates) ==
    [k \in {u \in DOMAIN updates : updates[u].kind # "none"} |->
        NormalizedValue(k, updates[k])]

update_personalization(data, updates) ==
    IF DOMAIN updates = {} THEN data
    ELSE LET removed == {k \in DOMAIN updates : updates[k].kind = "none"}
         IN  [k \in (DOMAIN data \cup DOMAIN updates) \ removed |->
                IF k \in DOMAIN updates THEN NormalizedValue(k, updates[k]) ELSE data[k]]

_get_list_field_ListsOnly(data, key) ==
    LET value == DictGet(data, key, VList(<<>>))
    IN  IF value.kind = "list" THEN value.val ELSE <<>>

_get_list_field(data, key) ==
    LET value == DictGet(data, key, VList(<<>>))
    IN  CASE value.kind = "list" -> value.val
          [] value.kind = "none" -> <<>>
          [] OTHER               -> value.val

_get_personalization_value(data, key, default) == DictGet(data, key, default)

\* data.pop(key, None)
DictPop(data, key) == [k \in DOMAIN data \ {key} |-> data[k]]

\* data[key] = value
DictSet(data, key, value) == [k \in DOMAIN data \cup {key} |-> IF k = key THEN value ELSE data[k]]

_set_personalization_value(data, key, value) ==
    IF value.kind = "none" THEN DictPop(data, key) ELSE DictSet(data, key, value)

_set_list_field(data, key, value) ==
    CASE value.kind = "none" -> _set_personalization_value(data, key, VList(<<>>))
      [] value.kind = "list" -> _set_personalization_value(data, key, value)
      [] OTHER               -> _set_personalization_value(data, key, Singleton(value))

_set_bool_field(data, key, value) ==
    IF value.kind = "none" THEN DictPop(data, key)
    ELSE _set_personalization_value(data, key, VBool(Truthy(value)))

\* One call of a helper on the document of the first profile row.  The getters
\* record what they return.
SetValue(key, value) ==
    /\ profiles' = [profiles EXCEPT ![1].personalization_data =
                       _set_personalization_value(@, key, value)]
    /\ result' = [op |-> "_set_personalization_value", status |-> 200, key |-> key,
                  value |-> value]
    /\ UNCHANGED <<table, now, pending, cache>>

SetListField(key, value) ==
    /\ profiles' = [profiles EXCEPT ![1].personalization_data = _set_list_field(@, key, value)]
    /\ result' = [op |-> "_set_list_field", status |-> 200, key |-> key, value |-> value]
    /\ UNCHANGED <<table, now, pending, cache>>

SetBoolField(key, value) ==
    /\ profiles' = [profiles EXCEPT ![1].personalization_data = _set_bool_field(@, key, value)]
    /\ result' = [op |-> "_set_bool_field", status |-> 200, key |-> key, value |-> value]
    /\ UNCHANGED <<table, now, pending, cache>>

BulkUpdate(updates) ==
    /\ profiles' = [profiles EXCEPT ![1].personalization_data =
                       update_personalization(@, updates)]
    /\ result' = [op |-> "update_personalization", status |-> 200, updates |-> updates]
    /\ UNCHANGED <<table, now, pending, cache>>

GetListField(key) ==
    /\ result' = [op |-> "_get_list_field", status |-> 200, key |-> key,
                  returned |-> VList(_get_list_field(profiles[1].personalization_data, key))]
    /\ UNCHANGED <<table, profiles, now, pending, cache>>

GetValue(key, default) ==
    /\ result' = [op |-> "_get_personalization_value", status |-> 200, key |-> key,
                  returned |-> _get_personalization_value(profiles[1].personalization_data,
                                                          key, default)]
    /\ UNCHANGED <<table, profiles, now, pending, cache>>

UserProfile(user_id, onboarding_screen, onboarding_started_at) ==
    [user_id |-> user_id, personalization_data |-> <<>>, timezone |-> "UTC",
     onboarding_screen |-> onboarding_screen,
     onboarding_started_at |-> onboarding_started_at,
     updated_at |-> NoTime, personalized_at |-> NoTime]

\* select(UserProfile).where(user_id == u) ... .first()
FirstProfile(rows, user_id) ==
    IF \E i \in 1..Len(rows) : rows[i].user_id = user_id
    THEN CHOOSE i \in 1..Len(rows) :
            /\ rows[i].user_id = user_id
            /\ \A j \in 1..(i - 1) : rows[j].user_id # user_id
    ELSE 0

----------------------------------------------------------------------------
(* utils/cache_utils.py *)

\* Cache.delete(user:info:<user_id>)
invalidate_user_info_cache(entries, user_id) == [entries EXCEPT ![user_id] = NoEntry]

----------------------------------------------------------------------------
(* api/routes/user.py: POST and PUT /users/me/profile *)

PERSONALIZATION_LIST_FIELDS == {"goals", "challenges", "practice_preferences", "interests",
                                "reminder_times"}

\* profile_data.model_dump(exclude_unset=True): the nested personalization_data
\* mapping, the typed top-level keys that were set, and the two metadata keys
\* (Null when unset or null).
Payload(personalization_data, top, onboarding_screen, timezone) ==
    [personalization_data |-> personalization_data, top |-> top,
     onboarding_screen |-> onboarding_screen, timezone |-> timezone]

\* The flattened updates: the nested mapping, overridden by the top-level keys.
FlattenPayload(payload) ==
    [k \in DOMAIN payload.personalization_data \cup DOMAIN payload.top |->
        IF k \in DOMAIN payload.top THEN payload.top[k] ELSE payload.personalization_data[k]]

\* "Normalize list values for validation"
NormalizeListValues(updates) ==
    [k \in DOMAIN updates |->
        IF k \in PERSONALIZATION_LIST_FIELDS /\ updates[k].kind \notin {"none", "list"}
        THEN Singleton(updates[k])
        ELSE updates[k]]

\* updates.get(key) or []
GetOrEmpty(updates, key) == IF updates[key].kind = "list" THEN updates[key].val ELSE <<>>

\* "Filter out invalid codes using specific validators"
FilterInvalidCodes(rows, updates) ==
    [k \in DOMAIN updates |->
        CASE k = "goals" ->
               VList(validate_goal_codes(rows, GetOrEmpty(updates, k))[1])
          [] k = "challenges" ->
               VList(validate_challenge_codes(rows, GetOrEmpty(updates, k))[1])
          [] k = "practice_preferences" ->
               VList(validate_practice_codes(rows, GetOrEmpty(updates, k))[1])
          [] k = "interests" ->
               VList(validate_interest_codes(rows, GetOrEmpty(updates, k))[1])
          [] k = "reminder_times" ->
               VList(validate_reminder_codes(rows, GetOrEmpty(updates, k))[1])
          [] OTHER -> updates[k]]

PersonalizationUpdates(rows, payload) ==
    FilterInvalidCodes(rows, NormalizeListValues(FlattenPayload(payload)))

NormalizeScreen(onboarding_screen) ==
    IF onboarding_screen = "sleep" THEN "completed" ELSE onboarding_screen

has_required_fields_Always(data) == TRUE

has_required_fields(data) ==
    /\ _get_list_field(data, "goals") # <<>>
    /\ _get_list_field(data, "challenges") # <<>>
    /\ _get_list_field(data, "practice_preferences") # <<>>

\* POST /users/me/profile, the branch for a profile the select found: the
\* loaded row after the handler's assignments.
SaveUpdated(rows, loaded, payload, t) ==
    LET personalization_updates == PersonalizationUpdates(rows, payload)
        onboarding_screen == NormalizeScreen(payload.onboarding_screen)
        timezone_value == payload.timezone
        data == update_personalization(loaded.personalization_data, personalization_updates)
    IN  [loaded EXCEPT
           !.personalization_data = data,
           !.timezone = IF timezone_value \notin {Null, ""} THEN timezone_value ELSE @,
           !.onboarding_screen = IF onboarding_screen # Null THEN onboarding_screen ELSE @,
           !.onboarding_started_at = IF @ = NoTime THEN t ELSE @,
           !.updated_at = t,
           !.personalized_at =
              IF @ = NoTime /\ has_required_fields(data) /\ onboarding_screen = "completed"
              THEN t ELSE @]

\* POST /users/me/profile, the branch for no profile: the new row.
SaveCreated(rows, user, payload, t) ==
    LET personalization_updates == PersonalizationUpdates(rows, payload)
        onboarding_screen == NormalizeScreen(payload.onboarding_screen)
        timezone_value == payload.timezone
        data == update_personalization(<<>>, personalization_updates)
        fresh == UserProfile(user,
                             IF onboarding_screen \notin {Null, ""}
                             THEN onboarding_screen ELSE "welcome",
                             t)
    IN  [fresh EXCEPT
           !.personalization_data = data,
           !.timezone = IF timezone_value \notin {Null, ""} THEN timezone_value ELSE @,
           !.personalized_at =
              IF onboarding_screen = "completed" /\ has_required_fields(data)
              THEN t ELSE @]

\* POST /users/me/profile, select and commit with no other request between.
create_my_user_profile(user, payload) ==
    LET t == now + 1
        i == FirstProfile(profiles, user)
        profile == IF i # 0 THEN SaveUpdated(table, profiles[i], payload, t)
                   ELSE SaveCreated(table, user, payload, t)
    IN  /\ profiles' = IF i # 0 THEN [profiles EXCEPT ![i] = profile]
                       ELSE Append(profiles, profile)
        /\ now' = t
        /\ result' = [op |-> "create_my_user_profile", status |-> 200, user |-> user,
                      payload |-> payload, profile |-> profile]
        /\ cache' = invalidate_user_info_cache(cache, user)
        /\ UNCHANGED <<table, pending>>

\* PUT /users/me/profile
update_my_user_profile(user, payload) ==
    LET personalization_updates == PersonalizationUpdates(table, payload)
        i == FirstProfile(profiles, user)
        onboarding_screen == NormalizeScreen(payload.onboarding_screen)
        timezone_value == payload.timezone
        t == now + 1
        profile ==
          LET data == update_personalization(profiles[i].personalization_data,
                                             personalization_updates)
          IN  [profiles[i] EXCEPT
                 !.personalization_data = data,
                 !.onboarding_screen = IF onboarding_screen # Null THEN onboarding_screen ELSE @,
                 !.timezone = IF timezone_value \notin {Null, ""} THEN timezone_value ELSE @,
                 !.personalized_at =
                    IF onboarding_screen = "completed" /\ @ = NoTime /\ has_required_fields(data)
                    THEN t ELSE @,
                 !.updated_at = t]
    IN  IF i = 0
        THEN /\ result' = [op |-> "update_my_user_profile", status |-> 404, user |-> user,
                           payload |-> payload]
             /\ UNCHANGED <<table, profiles, now, pending, cache>>
        ELSE /\ profiles' = [profiles EXCEPT ![i] = profile]
             /\ now' = t
             /\ result' = [op |-> "update_my_user_profile", status |-> 200, user |-> user,
                           payload |-> payload, profile |-> profile]
             /\ cache' = invalidate_user_info_cache(cache, user)
             /\ UNCHANGED <<table, pending>>

----------------------------------------------------------------------------
(* Requests in flight: the handlers are plain functions, which the server   *)
(* runs on worker threads, each with a session of its own.  A handler       *)
(* selects the user's profile, and commits later; other requests may        *)
(* commit in between.                                                        *)

\* What select(UserProfile).where(user_id == u) ... .first() gave the
\* session: whether a row was found, and the row as loaded.
Loaded(rows, user_id) ==
    LET i == FirstProfile(rows, user_id)
    IN  [found |-> i # 0,
         profile |-> IF i # 0 THEN rows[i] ELSE UserProfile(user_id, Null, NoTime)]

\* user_id is declared unique=True: the INSERT of a second row for the user
\* raises IntegrityError, which no handler catches.
UniqueViolation_NoConstraint(rows, user_id) == FALSE

UniqueViolation(rows, user_id) == \E i \in 1..Len(rows) : rows[i].user_id = user_id

\* The flush of a loaded row: UPDATE ... SET the columns whose value the
\* handler changed, on the row as it is stored now.
FlushProfile(stored, loaded, assigned) ==
    [k \in DOMAIN stored |-> IF assigned[k] # loaded[k] THEN assigned[k] ELSE stored[k]]

\* The commit of a request in flight whose select gave loaded and whose
\* handler made assigned of it (or built it, where nothing was found).
CommitProfile(r, op, loaded, assigned) ==
    LET user == pending[r].user
        i == FirstProfile(profiles, user)
        flushed == FlushProfile(profiles[i], loaded.profile, assigned)
    IN  /\ now' = now + 1
        /\ pending' = [pending EXCEPT ![r] = Idle]
        /\ IF loaded.found
           THEN /\ profiles' = [profiles EXCEPT ![i] = flushed]
                /\ result' = [op |-> op, status |-> 200, user |-> user, profile |-> flushed]
                /\ cache' = invalidate_user_info_cache(cache, user)
           ELSE IF UniqueViolation(profiles, user)
                THEN /\ profiles' = profiles
                     /\ result' = [op |-> op, status |-> 500, user |-> user]
                     /\ cache' = cache
                ELSE /\ profiles' = Append(profiles, assigned)
                     /\ result' = [op |-> op, status |-> 200, user |-> user, profile |-> assigned]
                     /\ cache' = invalidate_user_info_cache(cache, user)
        /\ UNCHANGED table

\* POST /users/me/profile up to its select
create_my_user_profile_select(r, user, payload) ==
    /\ pending[r] = Idle
    /\ pending' = [pending EXCEPT ![r] = [op |-> "create_my_user_profile", user |-> user,
                                          payload |-> payload,
                                          loaded |-> Loaded(profiles, user)]]
    /\ UNCHANGED <<table, profiles, now, result, cache>>

\* POST /users/me/profile from the select to the commit
create_my_user_profile_commit(r) ==
    /\ pending[r].op = "create_my_user_profile"
    /\ LET req == pending[r]
           t == now + 1
       IN  CommitProfile(r, "create_my_user_profile", req.loaded,
                         IF req.loaded.found
                         THEN SaveUpdated(table, req.loaded.profile, req.payload, t)
                         ELSE SaveCreated(table, req.user, req.payload, t))

----------------------------------------------------------------------------
(* api/routes/admin_templates.py: the mutations as requests in flight *)

\* What the select of an admin mutation gave the session.
SelectedRecord(rows, category) ==
    LET i == FirstRow(rows, category)
    IN  [found |-> i # 0,
         record |-> IF i # 0 THEN rows[i]
                    ELSE PersonalizationTemplate(category, 0, Null, Null, <<>>, <<>>, 1)]

\* The row an UPDATE addresses: WHERE id = the id of the loaded record, which
\* is the one row of its category.
RowById_FirstRow(rows, category) == 1

RowById(rows, category) == FirstRow(rows, category)

\* The flush of a loaded record: UPDATE ... SET the columns whose assigned
\* value differs from the value the session holds as loaded, on the row as it
\* is stored now.
FlushRecord(stored, loaded, assigned) ==
    [k \in DOMAIN stored |-> IF assigned[k] # loaded[k] THEN assigned[k] ELSE stored[k]]

\* session.commit() of a mutation in flight.  loaded is the record as the
\* session holds it at the flush, assigned the record after the handler's
\* assignments (the new record where the select found none).  category is
\* unique=True: the INSERT of a second row for it raises IntegrityError.
CommitRecord(r, op, found, loaded, assigned) ==
    LET category == pending[r].category
        i == RowById(table, category)
    IN  /\ now' = now + 1
        /\ pending' = [pending EXCEPT ![r] = Idle]
        /\ IF found
           THEN /\ table' = [table EXCEPT ![i] = FlushRecord(table[i], loaded, assigned)]
                /\ result' = Response(op, category, 200)
           ELSE IF FirstRow(table, category) # 0
                THEN /\ table' = table
                     /\ result' = Response(op, category, 500)
                ELSE /\ table' = Append(table, assigned)
                     /\ result' = Response(op, category, 200)
        /\ UNCHANGED <<profiles, cache>>

\* A mutation up to its select; a category outside valid_categories is
\* rejected before it.
AdminSelect(r, op, category, arg) ==
    /\ pending[r] = Idle
    /\ IF category \notin valid_categories
       THEN /\ result' = Response(op, category, 400)
            /\ UNCHANGED <<table, profiles, now, pending, cache>>
       ELSE /\ pending' = [pending EXCEPT ![r] = [op |-> op, category |-> category, arg |-> arg,
                                                 loaded |-> SelectedRecord(table, category)]]
            /\ UNCHANGED <<table, profiles, now, result, cache>>

\* A mutation in flight that raises HTTPException after its select.
AdminReject(r, op, status) ==
    /\ pending' = [pending EXCEPT ![r] = Idle]
    /\ result' = Response(op, pending[r].category, status)
    /\ UNCHANGED <<table, profiles, now, cache>>

update_category_templates_select(r, category, templates_list) ==
    AdminSelect(r, "update_category_templates", category, templates_list)

update_category_templates_commit(r) ==
    /\ pending[r].op = "update_category_templates"
    /\ LET req == pending[r]
           loaded == req.loaded.record
       IN  CommitRecord(r, req.op, req.loaded.found, loaded,
                        IF req.loaded.found
                        THEN BumpVersion([loaded EXCEPT !.templates = req.arg], now + 1)
                        ELSE [loaded EXCEPT !.templates = req.arg])

add_template_to_category_select(r, category, template_item) ==
    AdminSelect(r, "add_template_to_category", category, template_item)

add_template_to_category_commit(r) ==
    /\ pending[r].op = "add_template_to_category"
    /\ LET req == pending[r]
           loaded == req.loaded.record
       IN  IF req.loaded.found /\ req.arg.code \in existing_codes(loaded.templates)
           THEN AdminReject(r, req.op, 400)
           ELSE CommitRecord(r, req.op, req.loaded.found, loaded,
                             IF req.loaded.found
                             THEN BumpVersion([loaded EXCEPT !.templates = Append(@, req.arg)],
                                              now + 1)
                             ELSE [loaded EXCEPT !.templates = <<req.arg>>])

delete_template_from_category_select(r, category, template_code) ==
    AdminSelect(r, "delete_template_from_category", category, template_code)

\* The loop writes is_active into the item dict of the loaded list: at the
\* flush the session holds the deactivated list as the loaded value.
delete_template_from_category_commit(r) ==
    /\ pending[r].op = "delete_template_from_category"
    /\ LET req == pending[r]
           selected == req.loaded.record
           loaded == [selected EXCEPT !.templates = DeactivateFirst(@, req.arg)]
       IN  IF ~req.loaded.found \/ req.arg \notin existing_codes(selected.templates)
           THEN AdminReject(r, req.op, 404)
           ELSE CommitRecord(r, req.op, TRUE, loaded,
                             BumpVersion([selected EXCEPT
                                            !.templates = DeactivateFirst(@, req.arg)],
                                         now + 1))

----------------------------------------------------------------------------
(* api/routes/onboarding.py: POST /onboarding/screen *)

valid_screens == {"welcome", "breathe", "personalize", "completed"}

\* The handler up to its select; a screen outside valid_screens is rejected
\* before it.
update_onboarding_screen_select(r, user, screen) ==
    /\ pending[r] = Idle
    /\ IF screen \notin valid_screens
       THEN /\ result' = [op |-> "update_onboarding_screen", status |-> 400, user |-> user]
            /\ UNCHANGED <<table, profiles, now, pending, cache>>
       ELSE /\ pending' = [pending EXCEPT ![r] = [op |-> "update_onboarding_screen",
                                                 user |-> user, screen |-> screen,
                                                 loaded |-> Loaded(profiles, user)]]
            /\ UNCHANGED <<table, profiles, now, result, cache>>

\* The handler from the select to the commit
update_onboarding_screen_commit(r) ==
    /\ pending[r].op = "update_onboarding_screen"
    /\ LET req == pending[r]
           t == now + 1
       IN  CommitProfile(r, "update_onboarding_screen", req.loaded,
                         IF req.loaded.found
                         THEN [req.loaded.profile EXCEPT
                                 !.onboarding_screen = req.screen,
                                 !.onboarding_started_at = IF @ = NoTime THEN t ELSE @,
                                 !.updated_at = t]
                         ELSE UserProfile(req.user, req.screen, t))

\* POST /onboarding/screen, select and commit with no other request between.
update_onboarding_screen(user, screen) ==
    IF screen \notin valid_screens
    THEN /\ result' = [op |-> "update_onboarding_screen", status |-> 400, user |-> user]
         /\ UNCHANGED <<table, profiles, now, pending, cache>>
    ELSE
      LET i == FirstProfile(profiles, user)
          t == now + 1
          profile == IF i = 0 THEN UserProfile(user, screen, t)
                     ELSE [profiles[i] EXCEPT
                             !.onboarding_screen = screen,
                             !.onboarding_started_at = IF @ = NoTime THEN t ELSE @,
                             !.updated_at = t]
      IN  /\ profiles' = IF i = 0 THEN Append(profiles, profile)
                         ELSE [profiles EXCEPT ![i] = profile]
          /\ now' = t
          /\ result' = [op |-> "update_onboarding_screen", status |-> 200, user |-> user,
                        screen |-> screen, profile |-> profile]
          /\ cache' = invalidate_user_info_cache(cache, user)
          /\ UNCHANGED <<table, pending>>

----------------------------------------------------------------------------
(* api/routes/user.py: GET /users/me/onboarding/status *)

ONBOARDING_SCREENS == <<"welcome", "breathe", "personalize">>

\* list.index, 0 for ValueError
IndexOf(seq, x) ==
    IF \E i \in 1..Len(seq) : seq[i] = x
    THEN CHOOSE i \in 1..Len(seq) : seq[i] = x /\ \A j \in 1..(i - 1) : seq[j] # x
    ELSE 0

AppendIfMissing_Never(seq, x) == seq

AppendIfMissing(seq, x) == IF x \in Range(seq) THEN seq ELSE Append(seq, x)

\* str.strip() on the strings the model stores
Strip(str) == IF str = " " THEN "" ELSE str

\* The string properties (name, age_range, gender, ...): Null for None
_get_string_field(data, key) ==
    LET value == _get_personalization_value(data, key, VNone)
    IN  IF value.kind = "str" /\ Strip(value.val[1]) # "" THEN Strip(value.val[1]) ELSE Null

\* completed_screens as the stored screen alone gives them
ScreensFromStored_NoneCompleted(stored_screen) == <<>>

ScreensFromStored(stored_screen) ==
    IF stored_screen \in {Null, ""} THEN <<>>
    ELSE IF stored_screen = "completed" THEN ONBOARDING_SCREENS
    ELSE IF IndexOf(ONBOARDING_SCREENS, stored_screen) # 0
         THEN SubSeq(ONBOARDING_SCREENS, 1, IndexOf(ONBOARDING_SCREENS, stored_screen) - 1)
         ELSE <<>>

\* completion_percentage from the number of completed screens, of required
\* fields filled and of optional fields filled.  The code computes in floats
\* and truncates twice, int(screens + fields) and then int(that + bonus); on
\* all 4 x 4 x 7 inputs the floats give the value of the exact arithmetic
\* below (sixths of a percent for the bonus).
CompletionPercentage_TruncatedOnce(screens, filled, filled_optional) ==
    Min((80 * screens + 120 * filled + 20 * filled_optional) \div 6, 100)

CompletionPercentage(screens, filled, filled_optional) ==
    LET completion_percentage == (40 * screens + 60 * filled) \div 3
        optional_completion6 == Min(20 * filled_optional, 6 * (100 - completion_percentage))
    IN  Min((6 * completion_percentage + optional_completion6) \div 6, 100)

IsCompleted_IgnoreMissing(personalized_at, missing_fields, completed_screens) ==
    personalized_at # NoTime /\ "personalize" \in Range(completed_screens)

IsCompleted(personalized_at, missing_fields, completed_screens) ==
    /\ personalized_at # NoTime
    /\ missing_fields = <<>>
    /\ "personalize" \in Range(completed_screens)

\* The response for a user without a profile
NoProfileStatus ==
    [is_completed |-> FALSE, has_profile |-> FALSE, personalized_at |-> NoTime,
     completion_percentage |-> 0, missing_fields |-> <<"profile">>,
     current_screen |-> "welcome", next_screen |-> "breathe", completed_screens |-> <<>>,
     onboarding_started_at |-> NoTime]

\* The response for a profile
OnboardingStatus(profile) ==
    LET data == profile.personalization_data
        personalized_at == profile.personalized_at
        stored_screen == NormalizeScreen(profile.onboarding_screen)
        has_personalization_data ==
            \/ \E k \in {"goals", "challenges", "practice_preferences", "interests"} :
                  _get_list_field(data, k) # <<>>
            \/ \E k \in {"age_range", "gender"} : _get_string_field(data, k) # Null
        with_welcome == AppendIfMissing(ScreensFromStored(stored_screen), "welcome")
        with_breathe == IF _get_string_field(data, "name") # Null
                        THEN AppendIfMissing(with_welcome, "breathe") ELSE with_welcome
        completed_screens ==
            IF has_personalization_data \/ personalized_at # NoTime
            THEN AppendIfMissing(with_breathe, "personalize") ELSE with_breathe
        current_screen ==
            IF stored_screen \notin {Null, ""} THEN stored_screen
            ELSE IF personalized_at # NoTime THEN "completed"
            ELSE IF has_personalization_data THEN "personalize"
            ELSE "breathe"
        current_index == IndexOf(ONBOARDING_SCREENS, current_screen)
        next_screen ==
            IF current_screen = "completed" THEN Null
            ELSE IF current_index = 0 THEN "personalize"
            ELSE IF current_index < Len(ONBOARDING_SCREENS)
                 THEN ONBOARDING_SCREENS[current_index + 1] ELSE Null
        IsMissing(field_name) == _get_list_field(data, field_name) = <<>>
        missing_fields == SelectSeq(<<"goals", "challenges", "practice_preferences">>, IsMissing)
        filled_optional ==
            Cardinality({k \in {"interests", "reminder_times"} : _get_list_field(data, k) # <<>>})
            + Cardinality({k \in {"age_range", "gender", "experience_level", "mood_tendency"} :
                              _get_string_field(data, k) # Null})
        is_completed == IsCompleted(personalized_at, missing_fields, completed_screens)
        IsDone(screen) == screen \in Range(completed_screens)
    IN  [is_completed |-> is_completed, has_profile |-> TRUE,
         personalized_at |-> personalized_at,
         completion_percentage |->
            CompletionPercentage(Cardinality(Range(completed_screens)
                                             \cap Range(ONBOARDING_SCREENS)),
                                 3 - Len(missing_fields), filled_optional),
         missing_fields |-> missing_fields,
         current_screen |-> IF is_completed THEN Null ELSE current_screen,
         next_screen |-> IF is_completed THEN Null ELSE next_screen,
         completed_screens |-> IF is_completed THEN ONBOARDING_SCREENS
                               ELSE SelectSeq(ONBOARDING_SCREENS, IsDone),
         onboarding_started_at |-> profile.onboarding_started_at]

get_onboarding_status(user) ==
    LET i == FirstProfile(profiles, user)
    IN  /\ result' = [op |-> "get_onboarding_status", status |-> 200, user |-> user,
                      response |-> IF i = 0 THEN NoProfileStatus
                                   ELSE OnboardingStatus(profiles[i])]
        /\ UNCHANGED <<table, profiles, now, pending, cache>>

----------------------------------------------------------------------------
(* api/routes/user.py: GET /users/me/info, and the writes it races with *)

\* The onboarding part of UserDisplayInfoResponse, as computed from the
\* database.  The percentage is int(screens / 3 * 40 + filled / 3 * 60); the
\* floats give the value of the integer division below on all 4 x 4 inputs.
DisplayInfo(rows, user_id) ==
    LET i == FirstProfile(rows, user_id)
        profile == rows[i]
        data == profile.personalization_data
        marker == profile.onboarding_screen
        screens_completed ==
            IF marker \in {Null, ""} THEN 0
            ELSE IF NormalizeScreen(marker) = "completed" THEN Len(ONBOARDING_SCREENS)
            ELSE IndexOf(ONBOARDING_SCREENS, marker)
        filled_fields ==
            Cardinality({k \in {"goals", "challenges", "practice_preferences"} :
                            _get_list_field(data, k) # <<>>})
    IN  IF i = 0
        THEN [has_profile |-> FALSE, onboarding_completed |-> FALSE,
              onboarding_completion_percentage |-> 0,
              current_onboarding_screen |-> "welcome", has_personalization |-> FALSE]
        ELSE [has_profile |-> TRUE,
              onboarding_completed |-> profile.personalized_at # NoTime,
              onboarding_completion_percentage |->
                 (40 * screens_completed + 60 * filled_fields) \div 3,
              current_onboarding_screen |->
                 IF marker \in {Null, ""} THEN "welcome" ELSE NormalizeScreen(marker),
              has_personalization |->
                 \E k \in {"goals", "challenges", "practice_preferences", "interests"} :
                    _get_list_field(data, k) # <<>>]

\* The handler up to Cache.get: a hit is returned, a miss goes on to the
\* database.
get_my_display_info_get(r, user) ==
    /\ pending[r] = Idle
    /\ IF cache[user].cached
       THEN /\ result' = [op |-> "get_my_display_info", status |-> 200, user |-> user,
                          info |-> cache[user].info, from_cache |-> TRUE]
            /\ UNCHANGED <<table, profiles, now, pending, cache>>
       ELSE /\ pending' = [pending EXCEPT ![r] = [op |-> "get_my_display_info", user |-> user,
                                                 step |-> "select"]]
            /\ UNCHANGED <<table, profiles, now, result, cache>>

\* The select of the profile and the building of the response
get_my_display_info_select(r) ==
    /\ pending[r].op = "get_my_display_info"
    /\ pending[r].step = "select"
    /\ pending' = [pending EXCEPT ![r] = [op |-> "get_my_display_info", user |-> pending[r].user,
                                          step |-> "set",
                                          info |-> DisplayInfo(profiles, pending[r].user)]]
    /\ UNCHANGED <<table, profiles, now, result, cache>>

\* Cache.set of the response built, and the return
get_my_display_info_set(r) ==
    /\ pending[r].op = "get_my_display_info"
    /\ pending[r].step = "set"
    /\ cache' = [cache EXCEPT ![pending[r].user] = [cached |-> TRUE, info |-> pending[r].info]]
    /\ result' = [op |-> "get_my_display_info", status |-> 200, user |-> pending[r].user,
                  info |-> pending[r].info, from_cache |-> FALSE]
    /\ pending' = [pending EXCEPT ![r] = Idle]
    /\ UNCHANGED <<table, profiles, now>>

\* The key expires USER_INFO_CACHE_TTL seconds after it was set.
CacheExpire(user) ==
    /\ cache[user].cached
    /\ cache' = [cache EXCEPT ![user] = NoEntry]
    /\ UNCHANGED <<table, profiles, now, result, pending>>

\* POST /users/me/profile up to the end of its commit: the call of
\* invalidate_user_info_cache is still to come.
create_my_user_profile_write(r, user, payload) ==
    /\ pending[r] = Idle
    /\ LET t == now + 1
           i == FirstProfile(profiles, user)
           profile == IF i # 0 THEN SaveUpdated(table, profiles[i], payload, t)
                      ELSE SaveCreated(table, user, payload, t)
       IN  /\ profiles' = IF i # 0 THEN [profiles EXCEPT ![i] = profile]
                          ELSE Append(profiles, profile)
           /\ now' = t
           /\ result' = [op |-> "create_my_user_profile", status |-> 200, user |-> user,
                         payload |-> payload, profile |-> profile]
    /\ pending' = [pending EXCEPT ![r] = [op |-> "invalidate_user_info_cache", user |-> user]]
    /\ UNCHANGED <<table, cache>>

\* POST /onboarding/screen up to the end of its commit
update_onboarding_screen_write(r, user, screen) ==
    /\ pending[r] = Idle
    /\ screen \in valid_screens
    /\ LET i == FirstProfile(profiles, user)
           t == now + 1
           profile == IF i = 0 THEN UserProfile(user, screen, t)
                      ELSE [profiles[i] EXCEPT
                              !.onboarding_screen = screen,
                              !.onboarding_started_at = IF @ = NoTime THEN t ELSE @,
                              !.updated_at = t]
       IN  /\ profiles' = IF i = 0 THEN Append(profiles, profile)
                          ELSE [profiles EXCEPT ![i] = profile]
           /\ now' = t
           /\ result' = [op |-> "update_onboarding_screen", status |-> 200, user |-> user,
                         screen |-> screen, profile |-> profile]
    /\ pending' = [pending EXCEPT ![r] = [op |-> "invalidate_user_info_cache", user |-> user]]
    /\ UNCHANGED <<table, cache>>

\* The call of invalidate_user_info_cache that follows the commit
InvalidateCache(r) ==
    /\ pending[r].op = "invalidate_user_info_cache"
    /\ cache' = invalidate_user_info_cache(cache, pending[r].user)
    /\ pending' = [pending EXCEPT ![r] = Idle]
    /\ UNCHANGED <<table, profiles, now, result>>

----------------------------------------------------------------------------
(* The store as provisioned, and the requests *)

\* Stored field definitions as init.sql or a manual edit may leave them
\* (seed_templates is the only code that writes the fields column).
FieldSamples ==
    {FieldDict("goals", "multi_select", "array"),
     FieldDict("sleep_time", "time_range", "string"),
     JsonObject(("field_key" :> "age_range" @@ "field_type" :> "dropdown" @@ "label" :> "age_range"
                 @@ "data_type" :> "string"), <<("code" :> "13-17")>>),
     JsonObject(("field_key" :> "name" @@ "field_type" :> "text" @@ "data_type" :> "string"),
                <<>>),
     JsonObject(("field_key" :> "occupation" @@ "field_type" :> "text" @@ "label" :> "None"
                 @@ "data_type" :> "string"), <<>>),
     JsonString}

\* A table holding the first form screen with such fields, or nothing.
ProvisionedTables ==
    {<<>>} \cup
    {<<PersonalizationTemplate("basic", 1, "basic", "form", <<>>, fields, 1)>> :
        fields \in SeqsUpTo(FieldSamples, MaxFields) \ {<<>>}}

Users == {"u1"}

\* The codes a request names for a category: its first default code and one
\* the defaults do not have.
RequestCodes(category) ==
    {"x"} \cup {AllDefaultCodes[c][1] : c \in {d \in {category} \cap DOMAIN AllDefaultCodes :
                                                  AllDefaultCodes[d] # <<>>}}

\* The items a request names: the code the defaults do not have at every
\* display order, active, and once inactive; a default code as the defaults
\* hold it.
RequestItems(category) ==
    {Item("x", order, TRUE) : order \in 1..MaxOrder}
    \cup {Item("x", 1, FALSE)}
    \cup {Item(code, 1, TRUE) : code \in RequestCodes(category) \ {"x"}}

NoResult == [op |-> "none", status |-> 0]

NoRequests == [r \in 1..MaxRequests |-> Idle]

\* No key is set.
NoCache == [user \in Users |-> NoEntry]

\* The table after start-up: seeded by init_db, or empty where start-up skips
\* init_db (AWS Lambda).
StartupTables == {<<>>, seed_templates(<<>>, FALSE, NoTime)}

Init ==
    /\ table \in StartupTables
    /\ profiles = <<>>
    /\ now = 0
    /\ result = NoResult
    /\ pending = NoRequests
    /\ cache = NoCache

\* The table is empty (create_all on a new database; init_db is skipped under
\* AWS Lambda) or was provisioned outside the application with the first
\* form screen.
InitProvisioned ==
    /\ table \in ProvisionedTables
    /\ profiles = <<>>
    /\ now = 0
    /\ result = NoResult
    /\ pending = NoRequests
    /\ cache = NoCache

NextScreens ==
    \/ now < MaxClock /\ init_db
    \/ now < MaxClock /\ reset_to_default_templates
    \/ get_onboarding_templates_view

SpecScreens == InitProvisioned /\ [][NextScreens]_vars

\* The admin and public catalog requests, on one category the admin routes
\* accept and one they reject.
CatalogCategories == {"goals", "basic"}

CatalogReplace ==
    \E category \in CatalogCategories :
       \E templates_list \in SeqsUpTo(RequestItems(category), MaxTemplates) :
          update_category_templates(category, templates_list)

CatalogWrite ==
    \/ init_db
    \/ \E overwrite \in BOOLEAN : seed_default_templates(overwrite)
    \/ reset_to_default_templates
    \/ \E category \in CatalogCategories :
         \E template_item \in RequestItems(category) :
            add_template_to_category(category, template_item)
    \/ \E category \in CatalogCategories :
         \E template_code \in RequestCodes(category) :
            delete_template_from_category(category, template_code)

CatalogRead ==
    \/ \E category \in CatalogCategories : get_category_templates(category)
    \/ \E category \in CatalogCategories : GetActiveTemplates(category)
    \/ get_onboarding_templates_view

\* The clock, and with it every version counter, stops after MaxWrites
\* writes; a request that is rejected does not read the clock.
NextCatalog ==
    \/ now < MaxWrites /\ CatalogReplace
    \/ CatalogWrite /\ now' <= MaxWrites
    \/ CatalogRead

SpecCatalog == Init /\ [][NextCatalog]_vars

\* The profile saves and the validator they call, over a goals category that
\* is absent, seeded, or replaced by the admin.
SaveCategories == {"goals", "reminders"}

SaveFieldOf == ("goals" :> "goals" @@ "reminders" :> "reminder_times")

SaveItems == {Item(code, 1, active) : code \in RequestCodes("goals"), active \in BOOLEAN}

\* Request bodies: one list field at the top level (typed List[str]) or in the
\* nested personalization_data mapping (any JSON value), with or without the
\* final screen.
Payloads ==
    {Payload(<<>>, (SaveFieldOf[c] :> VList(codes)), screen, Null) :
        c \in SaveCategories, codes \in SeqsUpTo(RequestCodes("goals"), MaxCodes),
        screen \in {Null, "sleep"}}
    \cup {Payload(("goals" :> v), <<>>, Null, Null) :
             v \in {VNone} \cup {VStr(code) : code \in RequestCodes("goals")}}
    \cup {Payload(<<>>, <<>>, Null, Null), Payload(<<>>, ("name" :> VStr("ann")), Null, Null)}

\* The catalog is written before the clock reaches MaxWrites, the profile
\* before it reaches MaxClock.
NextSaves ==
    \/ now < MaxWrites /\ init_db
    \/ now < MaxWrites /\ \E template_item \in SaveItems :
          update_category_templates("goals", <<template_item>>)
    \/ \E category \in SaveCategories :
          \E codes \in SeqsUpTo(RequestCodes("goals"), MaxCodes) :
             ValidateCodes(category, codes)
    \/ now < MaxClock /\ \E user \in Users, payload \in Payloads :
          create_my_user_profile(user, payload)
    \/ now < MaxClock /\ \E user \in Users, payload \in Payloads :
          update_my_user_profile(user, payload)

SpecSaves == Init /\ [][NextSaves]_vars

\* First saves, screen updates and PUT saves of one user, on MaxRequests
\* workers; MaxClock commits.
ProfilePayloads ==
    {Payload(<<>>, ("name" :> VStr("ann")), Null, Null),
     Payload(<<>>, ("goals" :> VList(<<"x">>)), "sleep", Null)}

RequestScreens == {"breathe", "completed", "x"}

NextProfiles ==
    \/ \E r \in 1..MaxRequests, user \in Users, payload \in ProfilePayloads :
          create_my_user_profile_select(r, user, payload)
    \/ now < MaxClock /\ \E r \in 1..MaxRequests : create_my_user_profile_commit(r)
    \/ \E r \in 1..MaxRequests, user \in Users, screen \in RequestScreens :
          update_onboarding_screen_select(r, user, screen)
    \/ now < MaxClock /\ \E r \in 1..MaxRequests : update_onboarding_screen_commit(r)
    \/ now < MaxClock /\ \E user \in Users, payload \in ProfilePayloads :
          update_my_user_profile(user, payload)

SpecProfiles == Init /\ [][NextProfiles]_vars

\* Admin mutations of two categories on MaxRequests workers, over the seeded
\* table and a user whose profile stores the first default goal; MaxClock
\* commits.
AdminCategories == {"goals", "reminders", "basic"}

StoredGoals == <<AllDefaultCodes["goals"][1]>>

InitAdmin ==
    /\ table = seed_templates(<<>>, FALSE, NoTime)
    /\ profiles = <<[UserProfile("u1", "personalize", NoTime) EXCEPT
                       !.personalization_data = ("goals" :> VList(StoredGoals))]>>
    /\ now = 0
    /\ result = NoResult
    /\ pending = NoRequests
    /\ cache = NoCache

\* A request goes to the first worker that is free.
FreeWorker(r) == pending[r] = Idle /\ \A q \in 1..(r - 1) : pending[q] # Idle

NextAdmin ==
    \/ \E r \in 1..MaxRequests, category \in AdminCategories :
          FreeWorker(r) /\ update_category_templates_select(r, category, <<Item("x", 1, TRUE)>>)
    \/ now < MaxClock /\ \E r \in 1..MaxRequests : update_category_templates_commit(r)
    \/ \E r \in 1..MaxRequests, category \in AdminCategories :
          FreeWorker(r) /\ add_template_to_category_select(r, category, Item("x", 1, TRUE))
    \/ now < MaxClock /\ \E r \in 1..MaxRequests : add_template_to_category_commit(r)
    \/ \E r \in 1..MaxRequests, category \in AdminCategories :
          \E template_code \in RequestCodes(category) \ {"x"} :
             FreeWorker(r) /\ delete_template_from_category_select(r, category, template_code)
    \/ now < MaxClock /\ \E r \in 1..MaxRequests : delete_template_from_category_commit(r)

SpecAdmin == InitAdmin /\ [][NextAdmin]_vars

\* A user's way through onboarding: saves that fill the required fields,
\* clear one, or give the name, with any onboarding_screen string; screen
\* updates; the status read.  The catalog is seeded; MaxClock writes.
RequiredCodes ==
    ("goals" :> VList(<<AllDefaultCodes["goals"][1]>>)
     @@ "challenges" :> VList(<<AllDefaultCodes["challenges"][1]>>)
     @@ "practice_preferences" :> VList(<<AllDefaultCodes["practices"][1]>>))

JourneyPayloads ==
    {Payload(<<>>, top, screen, Null) :
        top \in {<<>>, RequiredCodes, ("goals" :> VList(<<>>)), ("name" :> VStr("ann"))},
        screen \in {Null, "sleep", "completed", "breathe", "x"}}

JourneyScreens == {"welcome", "breathe", "completed", "x"}

InitJourney ==
    /\ table = seed_templates(<<>>, FALSE, NoTime)
    /\ profiles = <<>>
    /\ now = 0
    /\ result = NoResult
    /\ pending = NoRequests
    /\ cache = NoCache

NextJourney ==
    \/ now < MaxClock /\ \E user \in Users, payload \in JourneyPayloads :
          create_my_user_profile(user, payload)
    \/ now < MaxClock /\ \E user \in Users, payload \in JourneyPayloads :
          update_my_user_profile(user, payload)
    \/ now < MaxClock /\ \E user \in Users, screen \in JourneyScreens :
          update_onboarding_screen(user, screen)
    \/ \E user \in Users : get_onboarding_status(user)

SpecJourney == InitJourney /\ [][NextJourney]_vars

\* Cached reads of the display info beside profile saves and screen updates,
\* on MaxRequests workers; MaxClock writes.
CachePayloads ==
    {Payload(<<>>, ("goals" :> VList(<<AllDefaultCodes["goals"][1]>>)), Null, Null),
     Payload(<<>>, RequiredCodes, "completed", Null)}

CacheScreens == {"breathe", "personalize"}

NextCache ==
    \/ \E r \in 1..MaxRequests, user \in Users : get_my_display_info_get(r, user)
    \/ \E r \in 1..MaxRequests : get_my_display_info_select(r)
    \/ \E r \in 1..MaxRequests : get_my_display_info_set(r)
    \/ \E user \in Users : CacheExpire(user)
    \/ now < MaxClock /\ \E r \in 1..MaxRequests, user \in Users, payload \in CachePayloads :
          create_my_user_profile_write(r, user, payload)
    \/ now < MaxClock /\ \E r \in 1..MaxRequests, user \in Users, screen \in CacheScreens :
          update_onboarding_screen_write(r, user, screen)
    \/ \E r \in 1..MaxRequests : InvalidateCache(r)

SpecCache == InitJourney /\ [][NextCache]_vars

\* Every read of the catalog, over tables that hold dropdown options without
\* an id, a field that is no dict, and templates stored out of display order.
OptionSamples ==
    {JsonObject(("field_key" :> "age_range" @@ "field_type" :> "dropdown" @@ "label" :> "age_range"
                 @@ "data_type" :> "string"), <<("code" :> "13-17")>>),
     JsonString}

ReadTables ==
    {<<>>} \cup
    {<<PersonalizationTemplate("basic", 1, "basic", "form", <<>>, fields, 1)>> :
        fields \in SeqsUpTo(OptionSamples, MaxFields) \ {<<>>}}

InitReads ==
    /\ table \in ReadTables
    /\ profiles = <<>>
    /\ now = 0
    /\ result = NoResult
    /\ pending = NoRequests
    /\ cache = NoCache

NextReads ==
    \/ now < MaxWrites /\ init_db
    \/ now < MaxWrites /\ \E template_item \in RequestItems("goals") :
          update_category_templates("goals", <<Item("x", MaxOrder, TRUE), template_item>>)
    \/ \E category \in CatalogCategories : get_category_templates(category)
    \/ \E category \in CatalogCategories : GetActiveTemplates(category)
    \/ get_onboarding_templates_view
    \/ \E category \in SaveCategories :
          \E codes \in SeqsUpTo(RequestCodes("goals"), MaxCodes) :
             ValidateCodes(category, codes)

SpecReads == InitReads /\ [][NextReads]_vars

\* The document helpers of UserProfile, called in any order on one profile
\* that starts with the empty document: a list key, a bool key and a free key,
\* with None, a string, and an empty and a non-empty list as values.
DocKeys == {"goals", "data_consent", "name"}

DocValues == {VNone, VStr("a"), VList(<<>>), VList(<<"a">>)}

UpdateMappings ==
    UNION {[K -> DocValues] : K \in {S \in SUBSET DocKeys : Cardinality(S) <= MaxKeys}}

InitDocument ==
    /\ table = <<>>
    /\ profiles = <<UserProfile("u1", Null, NoTime)>>
    /\ now = 0
    /\ result = NoResult
    /\ pending = NoRequests
    /\ cache = NoCache

NextDocument ==
    \/ \E key \in DocKeys, value \in DocValues : SetValue(key, value)
    \/ \E key \in DocKeys \cap _LIST_FIELDS, value \in DocValues : SetListField(key, value)
    \/ \E key \in DocKeys \cap _BOOL_FIELDS, value \in DocValues : SetBoolField(key, value)
    \/ \E updates \in UpdateMappings : BulkUpdate(updates)
    \/ \E key \in DocKeys : GetListField(key)
    \/ \E key \in DocKeys : GetValue(key, VStr("X"))

SpecDocument == InitDocument /\ [][NextDocument]_vars

\* The status request on a profile as the saves can leave it: any of the keys
\* the calculator reads populated or not, goals and age_range possibly present
\* but empty, any screen marker, personalized_at set or not; or on no profile.
StatusListKeys == {"goals", "challenges", "practice_preferences", "interests", "reminder_times"}

StatusStringKeys == {"name", "age_range", "gender", "experience_level", "mood_tendency"}

StatusDocument(populated, blank) ==
    [k \in populated \cup (IF blank THEN {"goals", "age_range"} ELSE {}) |->
        IF k \in populated
        THEN IF k \in StatusListKeys THEN VList(<<"a">>) ELSE VStr("a")
        ELSE IF k \in StatusListKeys THEN VList(<<>>) ELSE VStr(" ")]

StatusScreens == {Null, "breathe", "personalize", "completed", "sleep", "x"}

StatusProfiles ==
    {[UserProfile("u1", screen, 1) EXCEPT
         !.personalization_data = StatusDocument(populated, blank),
         !.personalized_at = personalized_at] :
        populated \in SUBSET (StatusListKeys \cup StatusStringKeys), blank \in BOOLEAN,
        screen \in StatusScreens, personalized_at \in {NoTime, 1}}

InitStatus ==
    /\ table = <<>>
    /\ profiles \in {<<>>} \cup {<<profile>> : profile \in StatusProfiles}
    /\ now = 1
    /\ result = NoResult
    /\ pending = NoRequests
    /\ cache = NoCache

NextStatus == \E user \in Users : get_onboarding_status(user)

SpecStatus == InitStatus /\ [][NextStatus]_vars

----------------------------------------------------------------------------
(* Properties of the catalog store *)

HasRow(rows, category) == FirstRow(rows, category) # 0
RowOf(rows, category) == rows[FirstRow(rows, category)]

CategoriesOf(rows) == {rows[k].category : k \in 1..Len(rows)}

\* C4: AddTemplateItem fails whenever the item's code already occurs in the
\* category's templates list, active or inactive, and the failed request
\* leaves the category's row (templates, version, updated_at) as it was.
C4_AddDuplicateCodeFails ==
    [][(/\ result'.op = "add_template_to_category"
        /\ HasRow(table, result'.category)
        /\ \E k \in 1..Len(RowOf(table, result'.category).templates) :
              RowOf(table, result'.category).templates[k].code = result'.template.code)
       => (/\ result'.status = 400
           /\ HasRow(table', result'.category)
           /\ RowOf(table', result'.category) = RowOf(table, result'.category))]_vars

\* An add was refused for a code that the category holds on an inactive item.
C4_Witness ==
    /\ result.op = "add_template_to_category"
    /\ result.status = 400
    /\ HasRow(table, result.category)
    /\ \E k \in 1..Len(RowOf(table, result.category).templates) :
          /\ RowOf(table, result.category).templates[k].code = result.template.code
          /\ ~RowOf(table, result.category).templates[k].is_active

\* The step is a successful mutating request on category c.
MutatesCategory(c) ==
    \/ /\ result'.op \in {"update_category_templates", "add_template_to_category",
                          "delete_template_from_category"}
       /\ result'.status = 200
       /\ result'.category = c
    \/ /\ result'.op \in {"seed_default_templates", "reset_to_default_templates"}
       /\ result'.overwrite
       /\ c \in DOMAIN get_default_templates

C6_DeactivateSetsInactive ==
    [][result'.op = "delete_template_from_category" /\ result'.category \in valid_categories =>
         LET c == result'.category
             code == result'.template_code
             present == /\ HasRow(table, c)
                        /\ \E k \in 1..Len(RowOf(table, c).templates) :
                              RowOf(table, c).templates[k].code = code
         IN  IF present
             THEN LET old == RowOf(table, c).templates
                      new == RowOf(table', c).templates
                      first == CHOOSE k \in 1..Len(old) :
                                  /\ old[k].code = code
                                  /\ \A m \in 1..(k - 1) : old[m].code # code
                  IN  /\ result'.status = 200
                      /\ Len(new) = Len(old)
                      /\ \A k \in 1..Len(old) :
                            IF k = first
                            THEN new[k] = [old[k] EXCEPT !.is_active = FALSE]
                            ELSE new[k] = old[k]
                      /\ RowOf(table', c).version = RowOf(table, c).version + 1
             ELSE /\ result'.status = 404
                  /\ table' = table]_vars

\* C7: no category's templates list holds two items with the same code.
C7_CodesUniqueInCategory ==
    \A r \in 1..Len(table) :
       \A a, b \in 1..Len(table[r].templates) :
          a # b => table[r].templates[a].code # table[r].templates[b].code

\* out is the active items of stored, ascending by display_order, items of
\* equal display_order in stored order.
ActiveByDisplayOrder(stored, out) ==
    /\ \A k \in 1..(Len(out) - 1) : out[k].display_order <= out[k + 1].display_order
    /\ \A d \in {t.display_order : t \in Range(stored) \cup Range(out)} :
          LET ActiveAt(t) == t.is_active /\ t.display_order = d
              At(t) == t.display_order = d
          IN  SelectSeq(out, At) = SelectSeq(stored, ActiveAt)

\* C8: GetActiveTemplates and every ScreenView of GetOnboardingScreens list
\* exactly the active items of the category, ascending by display_order with
\* ties in stored order; GetActiveTemplates of a category without a row is
\* empty.
C8_ActiveTemplatesSorted ==
    /\ result.op = "get_active_templates" =>
          IF HasRow(table, result.category)
          THEN ActiveByDisplayOrder(RowOf(table, result.category).templates, result.templates)
          ELSE result.templates = <<>>
    /\ (result.op = "get_onboarding_templates_view" /\ result.status = 200) =>
          \A k \in 1..Len(result.screens) :
             ActiveByDisplayOrder(RowOf(table, result.screens[k].category).templates,
                                  result.screens[k].templates)

\* Two active items stored in descending display_order came back reversed.
C8_Witness ==
    /\ result.op = "get_active_templates"
    /\ HasRow(table, result.category)
    /\ Len(RowOf(table, result.category).templates) = 2
    /\ Len(result.templates) = 2
    /\ RowOf(table, result.category).templates[1].display_order
          > RowOf(table, result.category).templates[2].display_order
    /\ result.templates[1] = RowOf(table, result.category).templates[2]

\* C9: GetOnboardingScreens returns one ScreenView for each stored category
\* with view_order > 0, none for the others, ascending by view_order.
C9_ScreensByViewOrder ==
    (result.op = "get_onboarding_templates_view" /\ result.status = 200) =>
        /\ {result.screens[k].category : k \in 1..Len(result.screens)}
              = {table[r].category : r \in {q \in 1..Len(table) : table[q].view_order > 0}}
        /\ Len(result.screens) = Cardinality({q \in 1..Len(table) : table[q].view_order > 0})
        /\ \A k \in 1..Len(result.screens) :
              result.screens[k].view_order = RowOf(table, result.screens[k].category).view_order
        /\ \A k \in 1..(Len(result.screens) - 1) :
              result.screens[k].view_order <= result.screens[k + 1].view_order

\* Screens were returned for a table whose rows are not stored in view order.
C9_Witness ==
    /\ result.op = "get_onboarding_templates_view"
    /\ result.status = 200
    /\ Len(result.screens) > 1
    /\ \E i, j \in 1..Len(table) :
          /\ i < j
          /\ table[i].view_order > table[j].view_order
          /\ table[j].view_order > 0

\* A stored field that parses: a JSON object whose required attributes are
\* present and are not the strings the handler turns into None.
WellFormedField(field) ==
    /\ field.json = "object"
    /\ \A k \in FieldDefinitionRequired :
          k \in DOMAIN field.attrs /\ field.attrs[k] \notin {"None", "null"}

\* C10: screen assembly never fails on malformed field content: there is a
\* ScreenView for every category with view_order > 0, and its fields are the
\* well-formed stored field definitions of the category, in stored order.
C10_MalformedFieldsSkipped ==
    result.op = "get_onboarding_templates_view" =>
        /\ result.status = 200
        /\ {result.screens[k].category : k \in 1..Len(result.screens)}
              = {table[r].category : r \in {q \in 1..Len(table) : table[q].view_order > 0}}
        /\ \A k \in 1..Len(result.screens) :
              LET stored == SelectSeq(RowOf(table, result.screens[k].category).fields,
                                      WellFormedField)
                  fields == result.screens[k].fields
              IN  /\ Len(fields) = Len(stored)
                  /\ \A m \in 1..Len(fields) :
                        fields[m].field_key = stored[m].attrs["field_key"]

----------------------------------------------------------------------------
(* Properties of the validator and of the profile saves *)

\* The codes of the category's stored items that are active; none when the
\* category has no record.
ActiveInCategory(rows, category) ==
    IF HasRow(rows, category)
    THEN {RowOf(rows, category).templates[k].code :
             k \in {m \in 1..Len(RowOf(rows, category).templates) :
                       RowOf(rows, category).templates[m].is_active}}
    ELSE {}

\* The subsequence of codes that are (keep = TRUE) or are not (keep = FALSE)
\* active in the category.
ActiveSubsequence(rows, category, codes, keep) ==
    LET Test(code) == (code \in ActiveInCategory(rows, category)) = keep
    IN  SelectSeq(codes, Test)

\* The catalog category that holds the codes of a profile list field.
CategoryOfListField ==
    ("goals" :> "goals" @@ "challenges" :> "challenges" @@ "practice_preferences" :> "practices"
     @@ "interests" :> "interests" @@ "reminder_times" :> "reminders")

\* C1: a save succeeds whatever codes it names, and for each list field in
\* the submitted updates the stored value is the subsequence of the submitted
\* codes that are active in the field's category.
C1_SaveKeepsActiveCodes ==
    result.op \in {"create_my_user_profile", "update_my_user_profile"} =>
        LET updates == FlattenPayload(result.payload)
        IN  IF result.status = 200
            THEN \A k \in DOMAIN updates \cap PERSONALIZATION_LIST_FIELDS :
                    DictGet(result.profile.personalization_data, k, VNone)
                       = VList(ActiveSubsequence(table, CategoryOfListField[k],
                                                 updates[k].val, TRUE))
            ELSE /\ result.op = "update_my_user_profile"
                 /\ FirstProfile(profiles, result.user) = 0

\* C2: validate_template_codes splits the candidates, in input order, into
\* those active in the category and those that are not.
C2_ValidatePartitions ==
    result.op = "validate_template_codes" =>
        /\ result.valid_codes
              = ActiveSubsequence(table, result.category, result.codes, TRUE)
        /\ result.invalid_codes
              = ActiveSubsequence(table, result.category, result.codes, FALSE)

\* C3: for a category with no record, a non-empty candidate list comes back
\* with no valid code and every candidate invalid.
C3_AbsentCategoryAllInvalid ==
    (/\ result.op = "validate_template_codes"
     /\ ~HasRow(table, result.category)
     /\ result.codes # <<>>) =>
        /\ result.valid_codes = <<>>
        /\ result.invalid_codes = result.codes

\* C11: whatever the saves submitted, a list field that is present in a
\* stored personalization_data holds a list, never a bare scalar.
C11_ListFieldsHoldLists ==
    \A i \in 1..Len(profiles) :
       \A k \in DOMAIN profiles[i].personalization_data \cap _LIST_FIELDS :
          profiles[i].personalization_data[k].kind = "list"

\* A save submitted a bare string for goals and the profile holds it as a
\* one-element list.
C11_Witness ==
    /\ result.op \in {"create_my_user_profile", "update_my_user_profile"}
    /\ result.status = 200
    /\ "goals" \in DOMAIN result.payload.personalization_data
    /\ result.payload.personalization_data["goals"].kind = "str"
    /\ "goals" \in DOMAIN result.profile.personalization_data
    /\ result.profile.personalization_data["goals"]
          = VList(result.payload.personalization_data["goals"].val)

\* C14: a save merges: a key of the stored personalization_data that the
\* request does not submit keeps its value, and a save that submits nothing
\* leaves personalization_data as it was.
C14_SaveMergesUpdates ==
    [][(/\ result'.op \in {"create_my_user_profile", "update_my_user_profile"}
        /\ result'.status = 200
        /\ FirstProfile(profiles, result'.user) # 0)
       => LET old == profiles[FirstProfile(profiles, result'.user)].personalization_data
              new == profiles'[FirstProfile(profiles', result'.user)].personalization_data
              updates == FlattenPayload(result'.payload)
          IN  /\ \A k \in DOMAIN old \ DOMAIN updates :
                    k \in DOMAIN new /\ new[k] = old[k]
              /\ DOMAIN updates = {} => new = old]_vars

\* A save that did not submit goals was applied to a profile that holds goals.
C14_Witness ==
    /\ result.op = "update_my_user_profile"
    /\ result.status = 200
    /\ "goals" \notin DOMAIN FlattenPayload(result.payload)
    /\ "goals" \in DOMAIN result.profile.personalization_data
    /\ result.profile.personalization_data["goals"].val # <<>>

----------------------------------------------------------------------------
(* Properties of the profile document helpers *)

\* The typed setter of a key: set_list for a list key, set_bool for a bool
\* key, plain set for any other.
TypedSet(data, key, value) ==
    IF key \in _LIST_FIELDS THEN _set_list_field(data, key, value)
    ELSE IF key \in _BOOL_FIELDS THEN _set_bool_field(data, key, value)
    ELSE _set_personalization_value(data, key, value)

RECURSIVE TypedSetAll(_, _, _)
TypedSetAll(data, updates, keys) ==
    IF keys = {} THEN data
    ELSE LET key == CHOOSE k \in keys : TRUE
         IN  TypedSetAll(TypedSet(data, key, updates[key]), updates, keys \ {key})

\* C12: update_personalization leaves the document that the typed setters
\* leave when applied to each key of the updates.
C12_BulkUpdateAppliesTypedSetters ==
    [][result'.op = "update_personalization" =>
          profiles'[1].personalization_data
             = TypedSetAll(profiles[1].personalization_data, result'.updates,
                           DOMAIN result'.updates)]_vars

\* C13: on a list key, a scalar stored by set reads back through get_list as
\* a one-element list; set_list of None leaves the key present with []; set of
\* None leaves the key absent, so get returns the default; and from any
\* document set_list of [] and set of None leave different documents.
C13_SetThenGet ==
    LET data == profiles[1].personalization_data
    IN  /\ (/\ result.op = "_set_personalization_value"
            /\ result.key \in _LIST_FIELDS
            /\ result.value.kind = "str")
           => _get_list_field(data, result.key) = result.value.val
        /\ (result.op = "_set_list_field" /\ result.value = VNone)
           => /\ result.key \in DOMAIN data
              /\ _get_list_field(data, result.key) = <<>>
        /\ (result.op = "_set_personalization_value" /\ result.value = VNone)
           => /\ result.key \notin DOMAIN data
              /\ _get_personalization_value(data, result.key, VStr("X")) = VStr("X")
        /\ \A key \in DocKeys \cap _LIST_FIELDS :
              _set_list_field(data, key, VList(<<>>))
                 # _set_personalization_value(data, key, VNone)

\* A bare string was stored under goals by set, next to other keys.
C13_Witness ==
    /\ result.op = "_set_personalization_value"
    /\ result.key = "goals"
    /\ result.value = VStr("a")
    /\ profiles[1].personalization_data["goals"] = VStr("a")
    /\ DOMAIN profiles[1].personalization_data # {"goals"}

----------------------------------------------------------------------------
(* Properties of the onboarding progress calculator *)

RequiredFields == {"goals", "challenges", "practice_preferences"}

\* The required fields of the document that are non-empty, the optional
\* fields that are populated.
RequiredPresent(data) == {k \in RequiredFields : _get_list_field(data, k) # <<>>}

OptionalPresent(data) ==
    {k \in {"interests", "reminder_times"} : _get_list_field(data, k) # <<>>}
    \cup {k \in {"age_range", "gender", "experience_level", "mood_tendency"} :
             _get_string_field(data, k) # Null}

\* The completed screens of a profile before any override: the screens
\* before the stored marker (all, for the completed marker and the legacy
\* one), welcome, breathe for a non-empty name, personalize for populated
\* personalization data or a set personalized_at.
DerivedScreens(profile) ==
    LET data == profile.personalization_data
        marker == profile.onboarding_screen
    IN  (IF marker \in {"completed", "sleep"} THEN {"welcome", "breathe", "personalize"}
         ELSE IF marker = "breathe" THEN {"welcome"}
         ELSE IF marker = "personalize" THEN {"welcome", "breathe"}
         ELSE {})
        \cup {"welcome"}
        \cup (IF _get_string_field(data, "name") # Null THEN {"breathe"} ELSE {})
        \cup (IF \/ RequiredPresent(data) # {}
                 \/ _get_list_field(data, "interests") # <<>>
                 \/ _get_string_field(data, "age_range") # Null
                 \/ _get_string_field(data, "gender") # Null
                 \/ profile.personalized_at # NoTime
              THEN {"personalize"} ELSE {})

StatusOf(user) == result.response

ProfileOf(user) == profiles[FirstProfile(profiles, user)]

\* C15: is_completed is true exactly when personalized_at is set, no required
\* field is empty or absent and personalize is among the completed screens;
\* and then current_screen and next_screen are None and completed_screens is
\* the whole fixed sequence.
C15_CompletedExactlyWhen ==
    result.op = "get_onboarding_status" =>
        /\ StatusOf(result.user).is_completed
              <=> /\ StatusOf(result.user).has_profile
                  /\ ProfileOf(result.user).personalized_at # NoTime
                  /\ RequiredPresent(ProfileOf(result.user).personalization_data)
                        = RequiredFields
                  /\ "personalize" \in Range(StatusOf(result.user).completed_screens)
        /\ StatusOf(result.user).is_completed
              => /\ StatusOf(result.user).current_screen = Null
                 /\ StatusOf(result.user).next_screen = Null
                 /\ StatusOf(result.user).completed_screens
                       = <<"welcome", "breathe", "personalize">>

\* A completed status was reported for a profile whose marker is still breathe.
C15_Witness ==
    /\ result.op = "get_onboarding_status"
    /\ result.response.is_completed
    /\ ProfileOf(result.user).onboarding_screen = "breathe"

\* C16: a profile with personalized_at set, the three required fields
\* non-empty and the completed marker is reported completed, with no current
\* screen and 100 percent, whatever else it holds.
C16_FullyCompletedProfile ==
    (/\ result.op = "get_onboarding_status"
     /\ FirstProfile(profiles, result.user) # 0
     /\ ProfileOf(result.user).personalized_at # NoTime
     /\ RequiredPresent(ProfileOf(result.user).personalization_data) = RequiredFields
     /\ ProfileOf(result.user).onboarding_screen = "completed")
    => /\ result.response.is_completed
       /\ result.response.current_screen = Null
       /\ result.response.completion_percentage = 100

\* Such a profile, with no name and no optional field, was reported.
C16_Witness ==
    /\ result.op = "get_onboarding_status"
    /\ FirstProfile(profiles, result.user) # 0
    /\ ProfileOf(result.user).personalized_at # NoTime
    /\ ProfileOf(result.user).onboarding_screen = "completed"
    /\ DOMAIN ProfileOf(result.user).personalization_data = RequiredFields
    /\ result.response.completion_percentage = 100

\* The total of the 40/60/20 formula in sixths of a percent, clamped to 100.
FormulaTotal6(profile) ==
    Min(80 * Cardinality(DerivedScreens(profile))
        + 120 * Cardinality(RequiredPresent(profile.personalization_data))
        + 20 * Cardinality(OptionalPresent(profile.personalization_data)),
        600)

\* C17 as stated: completion_percentage is an integer in 0..100 equal to the
\* total of the 40/60/20 formula, 40 * screens / 3 + 60 * required / 3 +
\* optional / 6 * 20 clamped to 100 (read as the total rounded to an integer,
\* in whichever direction).
C17_PercentageIsFormulaTotal ==
    (result.op = "get_onboarding_status" /\ result.response.has_profile) =>
        /\ result.response.completion_percentage \in 0..100
        /\ 6 * result.response.completion_percentage > FormulaTotal6(ProfileOf(result.user)) - 6
        /\ 6 * result.response.completion_percentage < FormulaTotal6(ProfileOf(result.user)) + 6

\* C17 amended: completion_percentage is an integer in 0..100; the screens
\* part and the required part are added and truncated to an integer, the
\* bonus, at most what that integer leaves up to 100, is added to it and the
\* sum is truncated again.
C17_PercentageTruncatedTwice ==
    (result.op = "get_onboarding_status" /\ result.response.has_profile) =>
        LET profile == ProfileOf(result.user)
            base == (40 * Cardinality(DerivedScreens(profile))
                     + 60 * Cardinality(RequiredPresent(profile.personalization_data))) \div 3
            bonus6 == 20 * Cardinality(OptionalPresent(profile.personalization_data))
            clamped6 == IF bonus6 < 6 * (100 - base) THEN bonus6 ELSE 6 * (100 - base)
        IN  /\ result.response.completion_percentage \in 0..100
            /\ result.response.completion_percentage = (6 * base + clamped6) \div 6

\* A profile with one completed screen, no required field and two optional
\* fields was reported at 19 percent; the total of the formula is 20.
C17_Witness ==
    /\ result.op = "get_onboarding_status"
    /\ result.response.has_profile
    /\ Cardinality(DerivedScreens(ProfileOf(result.user))) = 1
    /\ RequiredPresent(ProfileOf(result.user).personalization_data) = {}
    /\ Cardinality(OptionalPresent(ProfileOf(result.user).personalization_data)) = 2
    /\ result.response.completion_percentage = 19

----------------------------------------------------------------------------
(* Properties of seeding and of the reads *)

ReadOps ==
    {"get_category_templates", "get_active_templates", "get_onboarding_templates_view",
     "validate_template_codes"}

\* C19: a read (the admin listing of a category, the active templates of a
\* category, the onboarding view, the code validator) leaves the whole table
\* as it was: every row's templates in their stored order, its fields with
\* their option entries, its metadata, version and updated_at.
C19_ReadsLeaveCatalog ==
    [][result'.op \in ReadOps => table' = table]_vars

\* The onboarding view answered over a stored dropdown option that has no id
\* (the view gave it one in the loaded row), and the table still holds the
\* option without it.
C19_Witness ==
    /\ result.op = "get_onboarding_templates_view"
    /\ result.status = 200
    /\ LoadedAfterView(table) # table
    /\ \E i \in 1..Len(table) : \E k \in 1..Len(table[i].fields) :
          /\ table[i].fields[k].options # <<>>
          /\ "id" \notin DOMAIN table[i].fields[k].options[1]
          /\ \E s \in 1..Len(result.screens) : \E f \in 1..Len(result.screens[s].fields) :
                /\ result.screens[s].fields[f].options # <<>>
                /\ "id" \in DOMAIN result.screens[s].fields[f].options[1]

\* The ten onboarding screens the handler's description lists
TenScreens ==
    <<"basic", "lifestyle", "goals", "challenges", "practices", "experience_levels",
      "mood_tendencies", "practice_times", "reminders", "interests">>

\* C27: over the store as the default seeding of an empty table leaves it,
\* GET /templates/onboarding returns the ten screens basic, lifestyle, goals,
\* challenges, practices, experience_levels, mood_tendencies, practice_times,
\* reminders, interests in that order, and no screen for consent.
C27_SeededViewIsTenScreens ==
    (/\ result.op = "get_onboarding_templates_view"
     /\ result.status = 200
     /\ table = seed_templates(<<>>, FALSE, NoTime))
    => [k \in 1..Len(result.screens) |-> result.screens[k].category] = TenScreens

----------------------------------------------------------------------------
(* Properties of the profile rows *)

ProfilesOf(rows, user_id) == {i \in 1..Len(rows) : rows[i].user_id = user_id}

AtMostOneProfile == \A user \in Users : Cardinality(ProfilesOf(profiles, user)) <= 1

\* C20: no user ever has two profile rows, whatever the interleaving of
\* first saves and screen updates; a POST save that commits with status 200
\* has appended the user's row when the user had none and has rewritten the
\* user's one row otherwise, and one that fails has written nothing; a PUT
\* save for a user without a row answers 404 and writes nothing.
C20_CreateIfAbsent ==
    /\ []AtMostOneProfile
    /\ [][/\ \A r \in 1..MaxRequests :
                (pending[r].op = "create_my_user_profile" /\ pending'[r] = Idle)
                => LET user == pending[r].user
                       i == FirstProfile(profiles, user)
                   IN  IF result'.status # 200 THEN i # 0 /\ profiles' = profiles
                       ELSE IF i = 0
                            THEN /\ profiles' = Append(profiles, result'.profile)
                                 /\ result'.profile.user_id = user
                            ELSE /\ Len(profiles') = Len(profiles)
                                 /\ profiles'[i] = result'.profile
                                 /\ \A j \in 1..Len(profiles) : j # i => profiles'[j] = profiles[j]
          /\ (/\ result'.op = "update_my_user_profile"
              /\ pending' = pending
              /\ FirstProfile(profiles, result'.user) = 0)
             => result'.status = 404 /\ profiles' = profiles]_vars

\* Two first requests of the user were in flight together, both having found
\* no profile: the row the first commit made is there, and the POST save that
\* committed second was refused.
C20_Witness ==
    /\ result.op = "create_my_user_profile"
    /\ result.status = 500
    /\ Cardinality(ProfilesOf(profiles, result.user)) = 1

----------------------------------------------------------------------------
(* Properties of the admin mutations in flight *)

AdminOps ==
    {"update_category_templates", "add_template_to_category", "delete_template_from_category"}

\* C21: the commit of an admin replace, add or deactivate on a category
\* leaves every row of another category (templates, fields, version and the
\* rest) and every profile as they were, whatever requests on other
\* categories are in flight or have committed since its select; a code a
\* profile stores stays in the profile.
C21_MutationTouchesOneCategory ==
    [][\A r \in 1..MaxRequests :
          (pending[r].op \in AdminOps /\ pending'[r] = Idle)
          => /\ profiles' = profiles
             /\ Len(table') >= Len(table)
             /\ \A i \in 1..Len(table) :
                   table[i].category # pending[r].category => table'[i] = table[i]
             /\ \A i \in (Len(table) + 1)..Len(table') :
                   table'[i].category = pending[r].category]_vars

\* The goals category was replaced by a request that selected before a
\* mutation of the reminders category committed: both rows are at version 2,
\* the profile still stores the goal the replace took away.
C21_Witness ==
    /\ result.op = "update_category_templates"
    /\ result.status = 200
    /\ result.category = "goals"
    /\ RowOf(table, "goals").version = 2
    /\ RowOf(table, "reminders").version = 2
    /\ StoredGoals[1] \notin existing_codes(RowOf(table, "goals").templates)
    /\ profiles[1].personalization_data["goals"] = VList(StoredGoals)

\* The record a mutation in flight computes from its own read, t being the
\* time of its commit.
ComputedRecord(req, t) ==
    LET loaded == req.loaded.record
    IN  BumpVersion([loaded EXCEPT !.templates =
                        IF req.op = "update_category_templates" THEN req.arg
                        ELSE IF req.op = "add_template_to_category" THEN Append(@, req.arg)
                        ELSE DeactivateFirst(@, req.arg)], t)

\* C26: when a mutation commits on a record that another mutation, which read
\* the same version, has rewritten since its select, the stored record
\* becomes exactly the one the later committer computed from its own read
\* (the earlier writer's templates are gone, the version is the commonly read
\* version + 1) and the request succeeds.
C26_LastWriterWins ==
    [][\A r \in 1..MaxRequests :
          (/\ pending[r].op \in AdminOps
           /\ pending'[r] = Idle
           /\ now' # now
           /\ pending[r].loaded.found
           /\ RowOf(table, pending[r].category) # pending[r].loaded.record
           /\ RowOf(table, pending[r].category).version = pending[r].loaded.record.version + 1)
          => /\ result'.status = 200
             /\ RowOf(table', pending[r].category) = ComputedRecord(pending[r], now')]_vars

----------------------------------------------------------------------------
(* Properties of the reported onboarding position *)

\* Any of goals, challenges, practice_preferences, interests, age_range,
\* gender is populated.
PersonalizationPresent(data) ==
    \/ \E k \in {"goals", "challenges", "practice_preferences", "interests"} :
          _get_list_field(data, k) # <<>>
    \/ \E k \in {"age_range", "gender"} : _get_string_field(data, k) # Null

\* C22: for a profile without a stored marker, current_screen is reported as
\* completed only if personalized_at is set and no required field is missing;
\* a profile that is not in that case is reported at personalize if any
\* personalization data is populated and at breathe otherwise.
C22_InferredCurrentScreen ==
    (/\ result.op = "get_onboarding_status"
     /\ FirstProfile(profiles, result.user) # 0
     /\ ProfileOf(result.user).onboarding_screen = Null)
    => LET profile == ProfileOf(result.user)
           full == /\ profile.personalized_at # NoTime
                   /\ RequiredPresent(profile.personalization_data) = RequiredFields
       IN  /\ result.response.current_screen = "completed" => full
           /\ ~full => result.response.current_screen =
                          IF PersonalizationPresent(profile.personalization_data)
                          THEN "personalize" ELSE "breathe"

\* seq lists some of the fixed sequence's screens, each once, in its order.
OrderedScreens(seq) ==
    LET IsListed(screen) == screen \in Range(seq)
    IN  seq = SelectSeq(ONBOARDING_SCREENS, IsListed)

\* The union as the statement of C24 words it: the screens strictly before
\* the stored marker (all three for the marker completed), welcome, breathe
\* for a non-blank name, personalize for populated data or personalized_at.
StatedScreens(profile) ==
    LET data == profile.personalization_data
        marker == profile.onboarding_screen
        index == IndexOf(ONBOARDING_SCREENS, marker)
    IN  (IF marker = "completed" THEN Range(ONBOARDING_SCREENS)
         ELSE IF index # 0 THEN Range(SubSeq(ONBOARDING_SCREENS, 1, index - 1))
         ELSE {})
        \cup {"welcome"}
        \cup (IF _get_string_field(data, "name") # Null THEN {"breathe"} ELSE {})
        \cup (IF PersonalizationPresent(data) \/ profile.personalized_at # NoTime
              THEN {"personalize"} ELSE {})

\* C24 as stated: for every existing profile the reported completed_screens
\* is a duplicate-free subsequence of the fixed sequence and holds exactly
\* the screens of the stated union.
C24_ScreensAreStatedUnion ==
    (result.op = "get_onboarding_status" /\ FirstProfile(profiles, result.user) # 0)
    => /\ OrderedScreens(result.response.completed_screens)
       /\ Range(result.response.completed_screens) = StatedScreens(ProfileOf(result.user))

\* C24: for every existing profile the reported completed_screens is a
\* duplicate-free subsequence of the fixed sequence; it is the whole sequence
\* when is_completed is reported, and otherwise holds exactly the screens of
\* the union, the legacy marker counting as the marker completed.
C24_ScreensAreUnionUnlessCompleted ==
    (result.op = "get_onboarding_status" /\ FirstProfile(profiles, result.user) # 0)
    => /\ OrderedScreens(result.response.completed_screens)
       /\ Range(result.response.completed_screens) =
             IF result.response.is_completed THEN Range(ONBOARDING_SCREENS)
             ELSE DerivedScreens(ProfileOf(result.user))

\* A completed profile whose marker is breathe and whose name is unset: the
\* union lacks breathe, the whole sequence was reported.
C24_Witness ==
    /\ result.op = "get_onboarding_status"
    /\ FirstProfile(profiles, result.user) # 0
    /\ result.response.is_completed
    /\ ProfileOf(result.user).onboarding_screen = "breathe"
    /\ "breathe" \notin DerivedScreens(ProfileOf(result.user))
    /\ result.response.completed_screens = ONBOARDING_SCREENS

----------------------------------------------------------------------------
(* Properties of a user's way through onboarding *)

StoredMarkers == {Null, "welcome", "breathe", "personalize", "completed"}

\* C25: the stored onboarding_screen marker of every profile is unset or one
\* of welcome, breathe, personalize, completed, whatever onboarding_screen
\* the saves and screen updates carried.
C25_StoredMarkerIsKnown ==
    \A i \in 1..Len(profiles) : profiles[i].onboarding_screen \in StoredMarkers

\* The screen after current_screen in the fixed sequence; None for the last
\* screen, for None, and for any value outside the sequence.
FollowingScreen(current_screen) ==
    LET index == IndexOf(ONBOARDING_SCREENS, current_screen)
    IN  IF index # 0 /\ index < Len(ONBOARDING_SCREENS)
        THEN ONBOARDING_SCREENS[index + 1] ELSE Null

\* C23: for every profile that saves and screen updates lead to, the reported
\* next_screen is the screen following the reported current_screen in the
\* fixed sequence, and None when current_screen is personalize, completed,
\* None or outside the sequence.
C23_NextScreenFollowsCurrent ==
    (result.op = "get_onboarding_status" /\ FirstProfile(profiles, result.user) # 0)
    => result.response.next_screen = FollowingScreen(result.response.current_screen)

\* C29: whenever is_completed is reported, completion_percentage 100 is
\* reported with it.
C29_CompletedMeansHundred ==
    (result.op = "get_onboarding_status" /\ result.response.is_completed)
    => result.response.completion_percentage = 100

\* personalized_at of the i-th profile row, unset for a row that is not there.
PersonalizedAt(rows, i) == IF i <= Len(rows) THEN rows[i].personalized_at ELSE NoTime

\* C28: a personalized_at that is set stays as it is through every save and
\* screen update; one that is unset becomes set only in a profile save whose
\* request carries onboarding_screen completed (or the legacy value) and
\* leaves goals, challenges and practice_preferences all non-empty.
C28_PersonalizedAtSetOnce ==
    [][\A i \in 1..Len(profiles') :
          /\ PersonalizedAt(profiles, i) # NoTime
                => profiles'[i].personalized_at = PersonalizedAt(profiles, i)
          /\ (PersonalizedAt(profiles, i) = NoTime /\ profiles'[i].personalized_at # NoTime)
                => /\ result'.op \in {"create_my_user_profile", "update_my_user_profile"}
                   /\ result'.payload.onboarding_screen \in {"completed", "sleep"}
                   /\ RequiredPresent(profiles'[i].personalization_data) = RequiredFields
                   /\ profiles'[i].personalized_at = now']_vars

\* A completing save set personalized_at at time 1; a later screen update
\* to completed left it.
C28_Witness ==
    /\ result.op = "update_onboarding_screen"
    /\ result.status = 200
    /\ result.screen = "completed"
    /\ now = 2
    /\ profiles[1].personalized_at = 1

----------------------------------------------------------------------------
(* Properties of the cached display info *)

\* C30: once every write has committed and deleted the user's key and every
\* read has returned (no request is in flight), the entry a cached
\* GET /users/me/info would be answered from carries the onboarding screen,
\* the completion percentage and the personalization flags of the profile as
\* committed, whatever the interleaving of the reads with the writes was.
C30_CachedInfoIsCurrent ==
    (\A r \in 1..MaxRequests : pending[r] = Idle)
    => \A user \in Users :
          cache[user].cached => cache[user].info = DisplayInfo(profiles, user)

====
